---- MODULE Spec2Model ----
(***************************************************************************)
(* A model of ctensmeyer/SyntheticDocuments:                               *)
(*   - create_lmdb      (crop_documents.py), the record store writer;      *)
(*   - convert          (crop_documents.py), the patch extractor;          *)
(*   - split_into_sets  (crop_documents.py), the dataset splitter;         *)
(*   - Document         (document.py), seed selection, create and save;    *)
(*   - _add_text        (document.py), one layer of glyphs;                *)
(*   - the pipeline     (crop_documents.py), pool.map, split, stores;      *)
(*   - create           (document.py), statement by statement.             *)
(* Each part has its own specification (SpecLmdb, SpecConvert, SpecSplit,  *)
(* SpecDoc for one Document, SpecWorkers for concurrent workers,           *)
(* SpecLayer, SpecPipe, SpecCreate); the variables of the other parts      *)
(* stay at their initial value.                                            *)
(***************************************************************************)
EXTENDS Integers, Sequences, FiniteSets, TLC

VARIABLES
    \* ---- create_lmdb ----
    lmdb_files,     \* os.listdir(images): the listing, a sequence of names
    lmdb_pc,        \* "open" | "loop" | "except" | "done" | "raised"
    lmdb_x,         \* the loop index x of the file handled next
    lmdb_txn,       \* keys put in the open write transaction, not committed
    lmdb_store,     \* keys of the committed records of the store
    lmdb_commits,   \* history: every txn.commit() that succeeded, in order
    lmdb_out,       \* history: what the except block printed
    lmdb_failed,    \* index of the file whose handling raised, or NoIndex
    \* ---- convert ----
    convert_args,   \* [isgt: "gt" in file, grayscale: args[1]]
    convert_shape,  \* original.shape[0..1] = <<height, width>> as read
    convert_pc,     \* "call" | "loop" | "write" | "returned" | "raised"
    convert_x,      \* the loop variable x of "for x in range(5)"
    convert_crop,   \* the crop of the attempt made last, or NoCrop
    convert_pixel_count, \* cv2.countNonZero(edges) of that attempt
    convert_written, \* the files cv2.imwrite has written
    \* ---- split_into_sets ----
    split_dirs,     \* [set, kind] -> the file names in RESULTS_DIR/set/kind
    split_files,    \* files = os.listdir(FULL_DIR + ORIGINAL_SUBDIR)
    split_sequence, \* the shuffled sequence of indices into files
    split_count,    \* how many entries of the sequence have been handled
    split_pc,       \* "call" | "move" | "labels" | "returned"
    split_labels,   \* [split] -> the lines written to LABELS_DIR/split.txt
    \* ---- Document, one instance per worker ----
    doc_pc,         \* [worker] -> "new" | "seeding" | "ready" | "raised"
    doc_explicit,   \* [worker] -> whether __init__ was given a seed
    doc_random_seed, \* [worker] -> self.random_seed, or NoSeed
    doc_tries,      \* [worker] -> tries of _assign_random_seed
    doc_result,     \* [worker] -> self.result, a path or NonePath
    doc_result_ground_truth, \* [worker] -> self.result_ground_truth
    doc_calls,      \* [worker] -> number of create/save calls made
    doc_log,        \* [worker] -> history: the two calls made last
    doc_driver,     \* "any": calls in any order | "lifecycle": LifeCycle
    doc_fs,         \* the paths that exist in TMP_DIR and in output_dir
    doc_writes,     \* history: <<path, worker>> for every file written
    \* ---- _add_text and _add_text_fade, one layer ----
    layer_kind,     \* "text" (_add_text) | "fade" (_add_text_fade)
    layer_shape,    \* img.shape[0..1] = <<height, width>>, the canvas
    layer_pc,       \* "loop" | "after" | "returned"
    layer_occupied, \* the rectangles the TextWriterState holds
    layer_all_words, \* the rectangles painted into all_words; {} is None
    layer_followed, \* the one glyph whose ink is followed: number, colour
    layer_color,    \* color, the ink colour as <<b, g, r>>
    layer_refused,  \* history: the glyph that found no place, or NoGlyph
    layer_img,      \* what the function returns
    layer_ground_truth, \* one pixel of the ground truth written, or NoPixel
    \* ---- the pipeline of crop_documents.py, lines 246-295 ----
    pipe_pc,        \* "start" | "map" | "split" | "move" | "lmdb" |
                    \* "finished" | "raised"
    pipe_random,    \* [process] -> the state of its random generator
    pipe_listing,   \* os.listdir(ORIGINAL_DIR), the argument of pool.map
    pipe_tasks,     \* [index] -> "queued" | "running" | "done" | "raised"
    pipe_running,   \* [pool worker] -> the task it runs, or 0
    pipe_dirs,      \* [set, kind] -> the file names in RESULTS_DIR/set/kind
    pipe_files,     \* files of split_into_sets
    pipe_sequence,  \* sequence of split_into_sets, shuffled
    pipe_count,     \* entries of the sequence handled
    pipe_labels,    \* [split] -> the lines of LABELS_DIR/split.txt
    pipe_stores,    \* history: the stores create_lmdb was called for
    pipe_writing,   \* [pool worker] -> which of the four imwrite calls
                    \* of lines 108-111 comes next, or 0
    pipe_accepted,  \* history: the originals whose crop was accepted
    \* ---- one create call of a Document, statement by statement ----
    create_pc,      \* "new" | "ready" | the statement create is at |
                    \* "returned" | "raised"
    create_seed,    \* [document] -> its random_seed, NoSeed before __init__
    create_random,  \* the state of the generator of module random
    create_np_random, \* the state of the generator of numpy.random
    create_bypass,  \* the argument of create
    create_img,     \* img: "none" (None) | "image"
    create_result,  \* self.result
    create_result_ground_truth, \* self.result_ground_truth
    create_fs,      \* the paths that exist in TMP_DIR
    create_stages,  \* history: the stages create has begun, in order
    create_decisions \* history: the random decisions of create, in order

lmdbVars == <<lmdb_files, lmdb_pc, lmdb_x, lmdb_txn, lmdb_store,
              lmdb_commits, lmdb_out, lmdb_failed>>

convertVars == <<convert_args, convert_shape, convert_pc, convert_x,
                 convert_crop, convert_pixel_count, convert_written>>

splitVars == <<split_dirs, split_files, split_sequence, split_count,
               split_pc, split_labels>>

docVars == <<doc_pc, doc_explicit, doc_random_seed, doc_tries, doc_result,
             doc_result_ground_truth, doc_calls, doc_log, doc_driver,
             doc_fs, doc_writes>>

layerVars == <<layer_kind, layer_shape, layer_pc, layer_occupied,
               layer_all_words, layer_followed, layer_color, layer_refused,
               layer_img, layer_ground_truth>>

pipeVars == <<pipe_pc, pipe_random, pipe_listing, pipe_tasks, pipe_running,
              pipe_dirs, pipe_files, pipe_sequence, pipe_count, pipe_labels,
              pipe_stores, pipe_writing, pipe_accepted>>

createVars == <<create_pc, create_seed, create_random, create_np_random,
                create_bypass, create_img, create_result,
                create_result_ground_truth, create_fs, create_stages,
                create_decisions>>

vars == <<lmdbVars, convertVars, splitVars, docVars, layerVars, pipeVars,
          createVars>>

\* what the actions of one part leave alone: the variables of the others
notLmdb ==
    <<convertVars, splitVars, docVars, layerVars, pipeVars, createVars>>
notConvert ==
    <<lmdbVars, splitVars, docVars, layerVars, pipeVars, createVars>>
notSplit ==
    <<lmdbVars, convertVars, docVars, layerVars, pipeVars, createVars>>
notDoc ==
    <<lmdbVars, convertVars, splitVars, layerVars, pipeVars, createVars>>
notLayer ==
    <<lmdbVars, convertVars, splitVars, docVars, pipeVars, createVars>>
notPipe ==
    <<lmdbVars, convertVars, splitVars, docVars, layerVars, createVars>>
notCreate ==
    <<lmdbVars, convertVars, splitVars, docVars, layerVars, pipeVars>>

----------------------------------------------------------------------------
(* Bounds                                                                  *)

MaxFiles == 25
MaxPatches == 10
MaxCalls == 4
MaxGlyphs == 3
MaxOriginals == 3
MaxWords == 1

(* Program constants                                                       *)

KeyBase == 76547000
KeyStride == 37
CommitEvery == 10

PatchSize == 256
CropAttempts == 5
\* 1 / .6 is the double 1.6666666666666667407..., above 5/3; the model keeps
\* it as the ratio InvTrainNum / InvTrainDen, which lies above 5/3 as well
\* and has the same floor quotients for every count below 10^6
InvTrainNum == 16666667
InvTrainDen == 10000000
\* 1 / .8 is the double 1.25 exactly
InvValNum == 125
InvValDen == 100
SeedMin == 10000
SeedMax == 100000
MaxTries == 10
\* the border _add_text_fade puts around a word: 25 pixels on each side
FadeBorder == 25
\* np.ones(...): the value of the ground-truth layer before compositing
GtBackground == 1
\* cv2.threshold(ground_truth, 10, 1, cv2.THRESH_BINARY)
GtThresh == 10
GtMaxval == 1
\* random.seed('hello'): the state every run of the pipeline starts from
RandomSeed == 1

NoIndex == 0 - 1

----------------------------------------------------------------------------
(* create_lmdb                                                             *)

\* enumerate(os.listdir(images)): names of one directory are distinct
Listing(n) == [i \in 1..n |-> i]

KeyUnspaced(x, imname) == <<KeyBase + x, x, imname>>

\* "%d:%d:%s" % (76547000 + x * 37, x, basename-without-extension)
Key(x, imname) == <<KeyBase + x * KeyStride, x, imname>>

CommitDueOnMultipleOnly(x) == x # 0 /\ x % CommitEvery = 0

\* if x % 10 == 0: (after txn.put)
CommitDue(x) == x % CommitEvery = 0

FinalCommitDropped(store, txn) == store

\* txn.commit() after the loop: what the store holds afterwards
FinalCommit(store, txn) == store \cup txn

\* the points of one iteration's try block that can raise
FailPoints(x) == {"read", "package", "put"}
                   \cup (IF CommitDue(x) THEN {"commit"} ELSE {})

InitLmdb ==
    /\ lmdb_files \in {Listing(n) : n \in 0..MaxFiles}
    /\ lmdb_pc = "open"
    /\ lmdb_x = 0
    /\ lmdb_txn = {}
    /\ lmdb_store = {}
    /\ lmdb_commits = <<>>
    /\ lmdb_out = <<>>
    /\ lmdb_failed = NoIndex

\* env, txn = open_db(db_file)
OpenDb ==
    /\ lmdb_pc = "open"
    /\ UNCHANGED notLmdb
    /\ lmdb_pc' = "loop"
    /\ lmdb_txn' = {}
    /\ UNCHANGED <<lmdb_files, lmdb_x, lmdb_store, lmdb_commits, lmdb_out,
                   lmdb_failed>>

IterateOkSameTxn ==
    /\ lmdb_pc = "loop"
    /\ UNCHANGED notLmdb
    /\ lmdb_x < Len(lmdb_files)
    /\ LET key == Key(lmdb_x, lmdb_files[lmdb_x + 1])
           put == lmdb_txn \cup {key}
       IN  IF CommitDue(lmdb_x)
           THEN /\ lmdb_store' = lmdb_store \cup put
                /\ lmdb_txn' = put
                /\ lmdb_commits' = Append(lmdb_commits,
                        [kind |-> "mid", x |-> lmdb_x,
                         writes |-> lmdb_x + 1])
           ELSE /\ lmdb_txn' = put
                /\ UNCHANGED <<lmdb_store, lmdb_commits>>
    /\ lmdb_x' = lmdb_x + 1
    /\ UNCHANGED <<lmdb_files, lmdb_pc, lmdb_out, lmdb_failed>>

\* one iteration of the for loop whose try block runs to its end
IterateOk ==
    /\ lmdb_pc = "loop"
    /\ UNCHANGED notLmdb
    /\ lmdb_x < Len(lmdb_files)
    /\ LET key == Key(lmdb_x, lmdb_files[lmdb_x + 1])
           put == lmdb_txn \cup {key}
       IN  IF CommitDue(lmdb_x)
           THEN /\ lmdb_store' = lmdb_store \cup put
                /\ lmdb_txn' = {}
                /\ lmdb_commits' = Append(lmdb_commits,
                        [kind |-> "mid", x |-> lmdb_x,
                         writes |-> lmdb_x + 1])
           ELSE /\ lmdb_txn' = put
                /\ UNCHANGED <<lmdb_store, lmdb_commits>>
    /\ lmdb_x' = lmdb_x + 1
    /\ UNCHANGED <<lmdb_files, lmdb_pc, lmdb_out, lmdb_failed>>

\* one iteration whose try block raises: at process_im/package (an
\* unreadable file gives im = None and package raises), at txn.put, or at
\* txn.commit
IterateRaise ==
    /\ lmdb_pc = "loop"
    /\ UNCHANGED notLmdb
    /\ lmdb_x < Len(lmdb_files)
    /\ \E point \in FailPoints(lmdb_x) :
          /\ lmdb_txn' = IF point = "commit"
                         THEN lmdb_txn \cup
                                {Key(lmdb_x, lmdb_files[lmdb_x + 1])}
                         ELSE lmdb_txn
    /\ lmdb_failed' = lmdb_x
    /\ lmdb_pc' = "except"
    /\ UNCHANGED <<lmdb_files, lmdb_x, lmdb_store, lmdb_commits, lmdb_out>>

ExceptSwallow ==
    /\ lmdb_pc = "except"
    /\ UNCHANGED notLmdb
    /\ lmdb_pc' = "loop"
    /\ lmdb_x' = lmdb_x + 1
    /\ UNCHANGED <<lmdb_files, lmdb_txn, lmdb_store, lmdb_commits, lmdb_out,
                   lmdb_failed>>

\* except Exception as e: print ... "Error occured on:", im_file; raise
ExceptBlock ==
    /\ lmdb_pc = "except"
    /\ UNCHANGED notLmdb
    /\ lmdb_out' = Append(lmdb_out,
                          <<"Error occured on:", lmdb_files[lmdb_x + 1]>>)
    /\ lmdb_pc' = "raised"
    /\ UNCHANGED <<lmdb_files, lmdb_x, lmdb_txn, lmdb_store, lmdb_commits,
                   lmdb_failed>>

\* print("Done Processing Images"); txn.commit(); env.close()
Finish ==
    /\ lmdb_pc = "loop"
    /\ UNCHANGED notLmdb
    /\ lmdb_x = Len(lmdb_files)
    /\ lmdb_store' = FinalCommit(lmdb_store, lmdb_txn)
    /\ lmdb_txn' = {}
    /\ lmdb_commits' = Append(lmdb_commits,
            [kind |-> "final", x |-> lmdb_x - 1, writes |-> lmdb_x])
    /\ lmdb_pc' = "done"
    /\ UNCHANGED <<lmdb_files, lmdb_x, lmdb_out, lmdb_failed>>

IdleLmdb ==
    /\ lmdb_files = <<>>
    /\ lmdb_pc = "idle"
    /\ lmdb_x = 0
    /\ lmdb_txn = {}
    /\ lmdb_store = {}
    /\ lmdb_commits = <<>>
    /\ lmdb_out = <<>>
    /\ lmdb_failed = NoIndex

NextLmdb ==
    \/ OpenDb
    \/ IterateOk
    \/ IterateRaise
    \/ ExceptBlock
    \/ Finish


----------------------------------------------------------------------------
(* convert                                                                 *)

Min(a, b) == IF a < b THEN a ELSE b

\* image heights and widths tried: below, at and above the patch size, and
\* wide enough for a column offset to lie beyond the last row
Dims == {100, PatchSize, 300, 2 * PatchSize}

\* random.randint(a, b), sampled at its ends and its middle
RandInt(a, b) == {a, (a + b) \div 2, b}

NoCrop == [taken |-> FALSE]

\* a[lo:hi] on an axis of n elements, 0 <= lo <= hi: numpy clips the slice
Slice(lo, hi, n) == <<Min(lo, n), Min(hi, n)>>

SliceLen(s) == s[2] - s[1]

CropRowsFromX(top_left_x, top_left_y, shape) ==
    Slice(top_left_x, top_left_x + PatchSize, shape[1])

\* the row slice of original[top_left_y:bottom_right_y, ...] (line 73)
CropRows(top_left_x, top_left_y, shape) ==
    Slice(top_left_y, top_left_y + PatchSize, shape[1])

\* the column slice of original[..., top_left_y:bottom_right_y] (line 73)
CropCols(top_left_x, top_left_y, shape) ==
    Slice(top_left_y, top_left_y + PatchSize, shape[2])

\* lines 65-74: the offsets drawn and the slices taken of original and of gt
Crop(top_left_x, top_left_y, shape) ==
    [taken |-> TRUE,
     top_left_x |-> top_left_x, top_left_y |-> top_left_y,
     rows |-> CropRows(top_left_x, top_left_y, shape),
     cols |-> CropCols(top_left_x, top_left_y, shape),
     gt_rows |-> CropRows(top_left_x, top_left_y, shape),
     gt_cols |-> CropCols(top_left_x, top_left_y, shape)]

CropArea(c) == SliceLen(c.rows) * SliceLen(c.cols)

\* cv2.countNonZero(edges): none, just at or below 1%, just above, all
PixelCounts(area) ==
    {0, area \div 100, area \div 100 + 1, area} \cap 0..area

AcceptsAtOnePercent(pixel_count, c) == pixel_count * 100 >= CropArea(c)

\* pixel_count > 0.01 * original.shape[0] * original.shape[1]
Accepts(pixel_count, c) == pixel_count * 100 > CropArea(c)

LastAttemptAtFive(x) == x = CropAttempts

\* elif x == 4
LastAttempt(x) == x = CropAttempts - 1

File(loc, name, c, channels) ==
    [loc |-> loc, name |-> name, rows |-> SliceLen(c.rows),
     cols |-> SliceLen(c.cols), channels |-> channels]

\* lines 86-91: the crop pair written to GARBAGE_DIR
GarbageFiles(c) ==
    {File("garbage", "file", c, 3), File("garbage", "file_gt", c, 1)}

\* lines 97-111: the four files of an accepted patch, all under the
\* original's basename
PatchFiles(c, grayscale) ==
    {File("full/original_images", "file", c, IF grayscale THEN 1 ELSE 3),
     File("full/processed_gt", "file", c, 1),
     File("full/recall_weights", "file", c, 1),
     File("full/precision_weights", "file", c, 1)}

InitConvert ==
    /\ convert_args \in [isgt : BOOLEAN, grayscale : BOOLEAN]
    /\ convert_shape \in Dims \X Dims
    /\ convert_pc = "call"
    /\ convert_x = 0
    /\ convert_crop = NoCrop
    /\ convert_pixel_count = 0
    /\ convert_written = {}

TooSmallHeightOnly(shape) == shape[1] < PatchSize

\* if original.shape[0] < 256 or original.shape[1] < 256: (line 59)
TooSmall(shape) == shape[1] < PatchSize \/ shape[2] < PatchSize

\* lines 47-62: skip ground-truth files, read the pair, reject small images
ConvertCall ==
    /\ convert_pc = "call"
    /\ UNCHANGED notConvert
    /\ convert_pc' =
          IF convert_args.isgt THEN "returned"
          ELSE IF TooSmall(convert_shape)
               THEN "returned"
               ELSE "loop"
    /\ UNCHANGED <<convert_args, convert_shape, convert_x, convert_crop,
                   convert_pixel_count, convert_written>>

\* lines 64-95, one iteration whose crop has pixels
Attempt ==
    /\ convert_pc = "loop"
    /\ UNCHANGED notConvert
    /\ \E top_left_x \in RandInt(0, convert_shape[1] - PatchSize),
          top_left_y \in RandInt(0, convert_shape[2] - PatchSize) :
          LET c == Crop(top_left_x, top_left_y, convert_shape) IN
          /\ CropArea(c) > 0
          /\ convert_crop' = c
          /\ \E pixel_count \in PixelCounts(CropArea(c)) :
                /\ convert_pixel_count' = pixel_count
                /\ IF Accepts(pixel_count, c)
                   THEN /\ convert_pc' = "write"
                        /\ UNCHANGED <<convert_x, convert_written>>
                   ELSE IF LastAttempt(convert_x)
                   THEN /\ convert_written' =
                              convert_written \cup GarbageFiles(c)
                        /\ convert_pc' = "returned"
                        /\ UNCHANGED convert_x
                   ELSE /\ convert_x' = convert_x + 1
                        /\ UNCHANGED <<convert_pc, convert_written>>
    /\ UNCHANGED <<convert_args, convert_shape>>

\* lines 64-95, one iteration whose crop is empty (the row slice starts at
\* or beyond the last row).  cv2.Canny either rejects the empty image or
\* yields no edges; with no edges 0 > 0.0 is false, and on the last attempt
\* cv2.imwrite of the empty crop either raises or returns False: no image
\* is written in either case.
AttemptEmpty ==
    /\ convert_pc = "loop"
    /\ UNCHANGED notConvert
    /\ \E top_left_x \in RandInt(0, convert_shape[1] - PatchSize),
          top_left_y \in RandInt(0, convert_shape[2] - PatchSize) :
          LET c == Crop(top_left_x, top_left_y, convert_shape) IN
          /\ CropArea(c) = 0
          /\ convert_crop' = c
          /\ convert_pixel_count' = 0
          /\ \E canny \in {"error", "no edges"},
                imwrite \in {"error", "false"} :
                IF canny = "error"
                THEN /\ convert_pc' = "raised"
                     /\ UNCHANGED convert_x
                ELSE IF LastAttempt(convert_x)
                THEN /\ convert_pc' = IF imwrite = "error" THEN "raised"
                                      ELSE "returned"
                     /\ UNCHANGED convert_x
                ELSE /\ convert_x' = convert_x + 1
                     /\ UNCHANGED convert_pc
    /\ UNCHANGED <<convert_args, convert_shape, convert_written>>

\* lines 97-111: the accepted crop is written as the patch
WritePatch ==
    /\ convert_pc = "write"
    /\ UNCHANGED notConvert
    /\ convert_written' =
          convert_written \cup PatchFiles(convert_crop, convert_args.grayscale)
    /\ convert_pc' = "returned"
    /\ UNCHANGED <<convert_args, convert_shape, convert_x, convert_crop,
                   convert_pixel_count>>

NextConvert ==
    \/ ConvertCall
    \/ Attempt
    \/ AttemptEmpty
    \/ WritePatch

IdleConvert ==
    /\ convert_args = [isgt |-> FALSE, grayscale |-> TRUE]
    /\ convert_shape = <<0, 0>>
    /\ convert_pc = "idle"
    /\ convert_x = 0
    /\ convert_crop = NoCrop
    /\ convert_pixel_count = 0
    /\ convert_written = {}

----------------------------------------------------------------------------
(* split_into_sets                                                         *)

Sets == {"full", "train", "val", "test"}
Kinds == {"original_images", "processed_gt", "recall_weights",
          "precision_weights"}

\* names of n accepted patches: convert writes the four files of a patch
\* under one basename, so the four full/ directories hold the same names
Names(n) == 1..n

\* random.shuffle(sequence), sampled: the rotations of 0..n-1 and their
\* reversals
Shuffles(n) ==
    {[i \in 1..n |-> (i - 1 + k) % n] : k \in 0..(n - 1)}
    \cup {[i \in 1..n |-> (n - 1) - ((i - 1 + k) % n)] : k \in 0..(n - 1)}
    \cup {<<>> : k \in {0} \cap {n}}

\* len(files) // (1 / .6): float floor division by the double 1/.6
TrainCutOff(n) == (n * InvTrainDen) \div InvTrainNum

\* len(files) // (1 / .8)
ValCutOff(n) == (n * InvValDen) \div InvValNum

\* the branch of lines 133-147 taken at position count of the sequence
TargetSet(count, n) ==
    IF count < TrainCutOff(n) THEN "train"
    ELSE IF count < ValCutOff(n) THEN "val"
    ELSE "test"

CopyFile(dirs, file, kind, to) ==
    [dirs EXCEPT ![<<to, kind>>] = @ \cup {file}]

\* shutil.move(FULL_DIR + kind + file, <to> + kind + file)
MoveFile(dirs, file, kind, to) ==
    [dirs EXCEPT ![<<"full", kind>>] = @ \ {file},
                 ![<<to, kind>>] = @ \cup {file}]

\* the four moves of one branch (lines 134-137, 139-142, 144-147)
MoveFour(dirs, file, to) ==
    MoveFile(MoveFile(MoveFile(MoveFile(dirs, file, "original_images", to),
                               file, "processed_gt", to),
                      file, "recall_weights", to),
             file, "precision_weights", to)

RECURSIVE SetToSeq(_)
\* os.listdir of a directory, in ascending order of the names
SetToSeq(S) ==
    IF S = {} THEN <<>>
    ELSE LET m == CHOOSE a \in S : \A b \in S : a <= b
         IN  <<m>> \o SetToSeq(S \ {m})

\* output.write("./{}\n".format(file)) for each file of the listing
LabelLines(listing) == [i \in 1..Len(listing) |-> <<"./", listing[i]>>]

NoLabels == [d \in {"train", "test", "val"} |-> <<"not written">>]

InitSplit ==
    /\ \E n \in 0..MaxPatches :
          split_dirs = [d \in Sets \X Kinds |->
                          IF d[1] = "full" THEN Names(n) ELSE {}]
    /\ split_files = <<>>
    /\ split_sequence = <<>>
    /\ split_count = 0
    /\ split_pc = "call"
    /\ split_labels = NoLabels

\* lines 118-125: list the originals, shuffle the indices
SplitCall ==
    /\ split_pc = "call"
    /\ UNCHANGED notSplit
    /\ split_files' = SetToSeq(split_dirs[<<"full", "original_images">>])
    /\ split_sequence' \in Shuffles(Len(split_files'))
    /\ split_count' = 0
    /\ split_pc' = "move"
    /\ UNCHANGED <<split_dirs, split_labels>>

\* lines 129-147: one iteration of the loop over the shuffled sequence
SplitMove ==
    /\ split_pc = "move"
    /\ UNCHANGED notSplit
    /\ split_count < Len(split_sequence)
    /\ LET index == split_sequence[split_count + 1]
           file == split_files[index + 1]
       IN  split_dirs' = MoveFour(split_dirs, file,
                                  TargetSet(split_count, Len(split_files)))
    /\ split_count' = split_count + 1
    /\ UNCHANGED <<split_files, split_sequence, split_pc, split_labels>>

SplitLabelsOfTrain ==
    /\ split_pc = "move"
    /\ UNCHANGED notSplit
    /\ split_count = Len(split_sequence)
    /\ split_labels' = [d \in {"train", "test", "val"} |->
            LabelLines(SetToSeq(split_dirs[<<"train", "original_images">>]))]
    /\ split_pc' = "returned"
    /\ UNCHANGED <<split_dirs, split_files, split_sequence, split_count>>

\* lines 152-157: the three label files
SplitLabels ==
    /\ split_pc = "move"
    /\ UNCHANGED notSplit
    /\ split_count = Len(split_sequence)
    /\ split_labels' = [d \in {"train", "test", "val"} |->
            LabelLines(SetToSeq(split_dirs[<<d, "original_images">>]))]
    /\ split_pc' = "returned"
    /\ UNCHANGED <<split_dirs, split_files, split_sequence, split_count>>

NextSplit ==
    \/ SplitCall
    \/ SplitMove
    \/ SplitLabels

IdleSplit ==
    /\ split_dirs = [d \in Sets \X Kinds |-> {}]
    /\ split_files = <<>>
    /\ split_sequence = <<>>
    /\ split_count = 0
    /\ split_pc = "idle"
    /\ split_labels = NoLabels

----------------------------------------------------------------------------
(* Document                                                                *)

\* the worker processes, each owning one Document
Workers == {1, 2}

NoSeed == 0

\* random.randint(10000, 100000), sampled at its ends
SeedChoices == {SeedMin, SeedMax}

Path(dir, kind, seed) == [dir |-> dir, kind |-> kind, seed |-> seed]

NonePath == Path("none", "none", NoSeed)

\* self.output_dir itself
OutputDir == Path("out", "dir", NoSeed)

\* "img_{}.png".format(self.random_seed) under self.output_dir
ImgPath(seed) == Path("out", "img", seed)
\* "img_{}_gt.png".format(self.random_seed) under self.output_dir
ImgGtPath(seed) == Path("out", "img_gt", seed)
\* str(self.random_seed) + "_augmented.png" under TMP_DIR
AugmentedPath(seed) == Path("tmp", "augmented", seed)
\* str(self.random_seed) + "_gt.png" under TMP_DIR
GtPath(seed) == Path("tmp", "gt", seed)
\* "degraded_{}_{}.png".format(self.random_seed, index) under TMP_DIR
DegradedPath(seed, index) ==
    Path("tmp", IF index = 1 THEN "degraded_1" ELSE "degraded_2", seed)
\* "degradation_script_{}_{}.xml".format(self.random_seed, index)
XmlPath(seed, index) ==
    Path("tmp", IF index = 1 THEN "xml_1" ELSE "xml_2", seed)

\* one call of create, save or save_ground_truth, as the log keeps it:
\* how it ended, what made it give up, and the paths it wrote
Call(op, outcome, aborted, produced) ==
    [op |-> op, outcome |-> outcome, aborted |-> aborted,
     produced |-> produced]

\* create -> save -> save_ground_truth, the order a worker's task follows
LifeCycle == <<"create", "save", "save_ground_truth">>

\* the output directory may hold the documents of earlier runs
InitDocWith(active, driver) ==
    /\ doc_pc = [w \in Workers |-> IF w \in active THEN "new" ELSE "off"]
    /\ doc_explicit = [w \in Workers |-> FALSE]
    /\ doc_random_seed = [w \in Workers |-> NoSeed]
    /\ doc_tries = [w \in Workers |-> 0]
    /\ doc_result = [w \in Workers |-> NonePath]
    /\ doc_result_ground_truth = [w \in Workers |-> NonePath]
    /\ doc_calls = [w \in Workers |-> 0]
    /\ doc_log = [w \in Workers |-> <<>>]
    /\ doc_driver = driver
    /\ \E old \in SUBSET SeedChoices :
          doc_fs = IF old = {} THEN {}
                   ELSE {OutputDir} \cup {ImgPath(s) : s \in old}
    /\ doc_writes = {}

IdleDoc ==
    /\ doc_pc = [w \in Workers |-> "off"]
    /\ doc_explicit = [w \in Workers |-> FALSE]
    /\ doc_random_seed = [w \in Workers |-> NoSeed]
    /\ doc_tries = [w \in Workers |-> 0]
    /\ doc_result = [w \in Workers |-> NonePath]
    /\ doc_result_ground_truth = [w \in Workers |-> NonePath]
    /\ doc_calls = [w \in Workers |-> 0]
    /\ doc_log = [w \in Workers |-> <<>>]
    /\ doc_driver = "any"
    /\ doc_fs = {}
    /\ doc_writes = {}

\* __init__, lines 89-101: the fields, and the seed given or to be drawn
Construct(w) ==
    /\ doc_pc[w] = "new"
    /\ UNCHANGED notDoc
    /\ \E seed \in SeedChoices \cup {NoSeed} :
          /\ doc_explicit' = [doc_explicit EXCEPT ![w] = seed # NoSeed]
          /\ doc_random_seed' = [doc_random_seed EXCEPT ![w] = seed]
          /\ doc_pc' = [doc_pc EXCEPT ![w] =
                           IF seed # NoSeed THEN "ready" ELSE "seeding"]
    /\ doc_tries' = [doc_tries EXCEPT ![w] = 0]
    /\ doc_result' = [doc_result EXCEPT ![w] = NonePath]
    /\ doc_result_ground_truth' =
          [doc_result_ground_truth EXCEPT ![w] = NonePath]
    /\ UNCHANGED <<doc_calls, doc_log, doc_driver, doc_fs, doc_writes>>

\* condition = os.path.isfile(self.output_dir + '/' + "img_<seed>.png")
SeedClashes(fs, seed) == ImgPath(seed) \in fs

\* _assign_random_seed, one iteration of its loop (lines 128-139)
AssignRandomSeed(w) ==
    /\ doc_pc[w] = "seeding"
    /\ UNCHANGED notDoc
    /\ IF doc_tries[w] > MaxTries
       THEN /\ doc_pc' = [doc_pc EXCEPT ![w] = "raised"]
            /\ UNCHANGED <<doc_random_seed, doc_tries>>
       ELSE \E seed \in SeedChoices :
               /\ doc_random_seed' = [doc_random_seed EXCEPT ![w] = seed]
               /\ doc_tries' = [doc_tries EXCEPT ![w] = @ + 1]
               /\ doc_pc' = [doc_pc EXCEPT ![w] =
                                IF SeedClashes(doc_fs, seed)
                                THEN "seeding" ELSE "ready"]
    /\ UNCHANGED <<doc_explicit, doc_result, doc_result_ground_truth,
                   doc_calls, doc_log, doc_driver, doc_fs, doc_writes>>

\* the driver calls op on the Document of worker w now
MayCall(w, op) ==
    /\ doc_pc[w] = "ready"
    /\ doc_calls[w] < MaxCalls
    /\ doc_driver = "lifecycle" =>
          /\ doc_calls[w] < Len(LifeCycle)
          /\ LifeCycle[doc_calls[w] + 1] = op

\* the log with one more call, cut to the two most recent
Logged(log, call) ==
    IF log = <<>> THEN <<call>> ELSE <<log[Len(log)], call>>

\* what a call leaves behind: the state of the Document and of the disk
After(w, call, pc, result, ground_truth, fs) ==
    /\ doc_calls' = [doc_calls EXCEPT ![w] = @ + 1]
    /\ doc_log' = [doc_log EXCEPT ![w] = Logged(@, call)]
    /\ doc_pc' = [doc_pc EXCEPT ![w] = pc]
    /\ doc_result' = [doc_result EXCEPT ![w] = result]
    /\ doc_result_ground_truth' =
          [doc_result_ground_truth EXCEPT ![w] = ground_truth]
    /\ doc_fs' = fs
    /\ doc_writes' = doc_writes \cup {<<p, w>> : p \in call.produced}
    /\ UNCHANGED <<doc_explicit, doc_random_seed, doc_tries, doc_driver>>

\* cv2.imwrite(path, img) where _add_text returned None (no glyph placed):
\* OpenCV 4 rejects the empty image ("error"); older builds return False,
\* having created no file ("nofile") or an empty one ("emptyfile")
ImwriteNone == {"error", "nofile", "emptyfile"}

\* create(bypass=True), lines 187-202
CreateBypass(w, readable, text, imwrite) ==
    LET seed == doc_random_seed[w]
        gt == GtPath(seed)
        path == AugmentedPath(seed)
        junk == IF imwrite = "emptyfile" THEN {path} ELSE {}
    IN  IF ~readable
        \* img is None: return
        THEN After(w, Call("create", "returned", "background", {}),
                   "ready", doc_result[w], doc_result_ground_truth[w],
                   doc_fs)
        ELSE IF text = "none" /\ imwrite = "error"
        THEN After(w, Call("create", "raised", "text", {}),
                   "raised", doc_result[w], doc_result_ground_truth[w],
                   doc_fs)
        ELSE IF text = "none"
        \* no ground truth was written; self.result = path all the same
        THEN After(w, Call("create", "returned", "text", junk),
                   "ready", path, doc_result_ground_truth[w],
                   doc_fs \cup junk)
        ELSE After(w, Call("create", "returned", "no", {gt, path}),
                   "ready", path, gt, doc_fs \cup {gt, path})

\* os.remove(first_xml); os.remove(first_image); return (lines 217-220)
FirstImageUnreadable(w, fs) ==
    LET seed == doc_random_seed[w]
        first_xml == XmlPath(seed, 1)
        first_image == DegradedPath(seed, 1)
    IN  IF first_image \in fs
        THEN After(w, Call("create", "returned", "first_image",
                           {first_xml, first_image}),
                   "ready", doc_result[w], doc_result_ground_truth[w],
                   fs \ {first_xml, first_image})
        \* os.remove of a missing file raises FileNotFoundError
        ELSE After(w, Call("create", "raised", "first_image", {first_xml}),
                   "raised", doc_result[w], doc_result_ground_truth[w],
                   fs \ {first_xml})

\* what a run of DivaDid.jar does: "fail" (non-zero exit: check_call
\* raises), "ok" (the degraded image is written) or "nofile" (exit 0 and
\* nothing written)
ToolRuns == {"fail", "ok", "nofile"}

\* create(bypass=False), lines 204-245; tool1 and tool2 are the two runs
CreateDegraded(w, tool1, readable, text, imwrite, tool2) ==
    LET seed == doc_random_seed[w]
        first_xml == XmlPath(seed, 1)
        first_image == DegradedPath(seed, 1)
        gt == GtPath(seed)
        path == AugmentedPath(seed)
        second_xml == XmlPath(seed, 2)
        second_image == DegradedPath(seed, 2)
        fs1 == doc_fs \cup {first_xml}
        fs2 == IF tool1 = "ok" THEN fs1 \cup {first_image} ELSE fs1
        made2 == {first_xml} \cup
                    (IF tool1 = "ok" THEN {first_image} ELSE {})
        \* _add_text writes the ground truth, line 227 the page
        texted == IF text = "placed" THEN {gt, path}
                  ELSE IF imwrite = "emptyfile" THEN {path} ELSE {}
        new_gt == IF text = "placed" THEN gt
                  ELSE doc_result_ground_truth[w]
        fs3 == fs2 \cup texted \cup {second_xml}
        made3 == made2 \cup texted \cup {second_xml}
        fs4 == IF tool2 = "ok" THEN fs3 \cup {second_image} ELSE fs3
        made4 == made3 \cup (IF tool2 = "ok" THEN {second_image} ELSE {})
    IN  IF tool1 = "fail"
        THEN After(w, Call("create", "raised", "tool", {first_xml}),
                   "raised", doc_result[w], doc_result_ground_truth[w], fs1)
        ELSE IF first_image \notin fs2 \/ ~readable
        THEN FirstImageUnreadable(w, fs2)
        ELSE IF text = "none" /\ imwrite = "error"
        THEN After(w, Call("create", "raised", "text", made2),
                   "raised", doc_result[w], doc_result_ground_truth[w], fs2)
        ELSE IF tool2 = "fail"
        THEN After(w, Call("create", "raised", "tool", made3),
                   "raised", doc_result[w], new_gt, fs3)
        ELSE After(w, Call("create", "returned",
                           IF text = "none" THEN "text" ELSE "no", made4),
                   "ready", second_image, new_gt,
                   fs4 \ {first_xml, second_xml, first_image})

\* what happens at a step create gives up before reaching is left at one
\* value: each way through create is taken once
Reached(tool1, readable, text, imwrite, tool2) ==
    /\ (tool1 = "fail" \/ ~readable) => (text = "placed" /\ tool2 = "ok")
    /\ tool1 = "fail" => readable
    /\ (text = "none" /\ imwrite = "error") => tool2 = "ok"

\* create, lines 159-245
Create(w) ==
    /\ MayCall(w, "create")
    /\ UNCHANGED notDoc
    /\ \E bypass, readable \in BOOLEAN, text \in {"none", "placed"} :
       \E imwrite \in IF text = "none" THEN ImwriteNone ELSE {"error"},
          tool1, tool2 \in IF bypass THEN {"ok"} ELSE ToolRuns :
          /\ Reached(tool1, readable, text, imwrite, tool2)
          /\ IF bypass THEN CreateBypass(w, readable, text, imwrite)
             ELSE CreateDegraded(w, tool1, readable, text, imwrite, tool2)

SaveRefusesNever(result) == FALSE

\* if self.result is None: (lines 262 and 298)
SaveRefuses(result) == result = NonePath

\* save, lines 262-281
Save(w) ==
    /\ MayCall(w, "save")
    /\ UNCHANGED notDoc
    /\ LET file == ImgPath(doc_random_seed[w])
           fs1 == doc_fs \cup {OutputDir}
       IN  IF SaveRefuses(doc_result[w])
           THEN After(w, Call("save", "returned", "no result", {}),
                      "ready", doc_result[w], doc_result_ground_truth[w],
                      doc_fs)
           ELSE IF doc_result[w] \notin fs1
           \* shutil.copy2 of a missing source raises
           THEN After(w, Call("save", "raised", "source", {}),
                      "raised", doc_result[w], doc_result_ground_truth[w],
                      fs1)
           ELSE After(w, Call("save", "returned", "no", {file}),
                      "ready", doc_result[w], doc_result_ground_truth[w],
                      (fs1 \cup {file}) \ {doc_result[w]})

SaveGroundTruthConsumes(w) ==
    /\ MayCall(w, "save_ground_truth")
    /\ UNCHANGED notDoc
    /\ LET file == ImgGtPath(doc_random_seed[w])
           fs1 == doc_fs \cup {OutputDir}
       IN  IF SaveRefuses(doc_result[w])
           THEN After(w, Call("save_ground_truth", "returned", "no result",
                              {}),
                      "ready", doc_result[w], doc_result_ground_truth[w],
                      doc_fs)
           ELSE IF doc_result_ground_truth[w] \notin fs1
           THEN After(w, Call("save_ground_truth", "raised", "source", {}),
                      "raised", doc_result[w], doc_result_ground_truth[w],
                      fs1)
           ELSE After(w, Call("save_ground_truth", "returned", "no", {file}),
                      "ready", doc_result[w], doc_result_ground_truth[w],
                      (fs1 \cup {file}) \ {doc_result_ground_truth[w]})

\* save_ground_truth, lines 298-315
SaveGroundTruth(w) ==
    /\ MayCall(w, "save_ground_truth")
    /\ UNCHANGED notDoc
    /\ LET file == ImgGtPath(doc_random_seed[w])
           fs1 == doc_fs \cup {OutputDir}
       IN  IF SaveRefuses(doc_result[w])
           THEN After(w, Call("save_ground_truth", "returned", "no result",
                              {}),
                      "ready", doc_result[w], doc_result_ground_truth[w],
                      doc_fs)
           ELSE IF doc_result_ground_truth[w] \notin fs1
           \* shutil.copy2 of None or of a missing source raises
           THEN After(w, Call("save_ground_truth", "raised", "source", {}),
                      "raised", doc_result[w], doc_result_ground_truth[w],
                      fs1)
           ELSE After(w, Call("save_ground_truth", "returned", "no", {file}),
                      "ready", doc_result[w], doc_result_ground_truth[w],
                      fs1 \cup {file})

NextDoc ==
    \E w \in Workers :
       \/ Construct(w)
       \/ AssignRandomSeed(w)
       \/ Create(w)
       \/ Save(w)
       \/ SaveGroundTruth(w)

----------------------------------------------------------------------------
(* _add_text and _add_text_fade: one layer of glyphs                       *)

\* color = np.array((53, 52, 46)), in the channel order of the image: b, g, r
InkColor == <<53, 52, 46>>

\* np.random.randint(-2, 3, size=3), sampled: all channels down by 2, or
\* the channels apart
ColorSteps == {<<0 - 2, 0 - 2, 0 - 2>>, <<2, 0 - 1, 0>>}

\* color += step
Walk(color, step) == [c \in 1..3 |-> color[c] + step[c]]

\* img.shape of the pages tried, and word.shape of the word images
CanvasShapes == {<<40, 40>>, <<120, 120>>}
WordShapes == {<<10, 10>>, <<60, 60>>}

\* the shape handed to get_next_word_pos: _add_text_fade first copies the
\* word into a white image 50 pixels higher and wider (lines 355-359)
GlyphShape(kind, word) ==
    IF kind = "fade"
    THEN <<word[1] + 2 * FadeBorder, word[2] + 2 * FadeBorder>>
    ELSE word

NonePos == <<0 - 1, 0 - 1>>

Rect(pos, glyph) == [x |-> pos[1], y |-> pos[2], h |-> glyph[1],
                     w |-> glyph[2]]

\* the rectangle lies fully inside a canvas of this shape
InsideCanvas(r, shape) ==
    /\ r.x >= 0 /\ r.y >= 0
    /\ r.y + r.h <= shape[1]
    /\ r.x + r.w <= shape[2]

\* two rectangles share a pixel
Overlap(r1, r2) ==
    /\ r1.x < r2.x + r2.w /\ r2.x < r1.x + r1.w
    /\ r1.y < r2.y + r2.h /\ r2.y < r1.y + r1.h

\* TextWriterState.get_next_word_pos: the origins it may answer, sampled at
\* the ends and the middle of each axis, and None when its bounded number
\* of random samples found no free place (always, once MaxGlyphs are held)
GetNextWordPos(occupied, shape, glyph) ==
    {NonePos} \cup
    {pos \in RandInt(0, shape[2] - glyph[2])
               \X RandInt(0, shape[1] - glyph[1]) :
        /\ Cardinality(occupied) < MaxGlyphs
        /\ InsideCanvas(Rect(pos, glyph), shape)
        /\ \A r \in occupied : ~Overlap(Rect(pos, glyph), r)}

\* alpha-blending of one channel value, alpha in 0..255:
\* output = foreground * alpha + background * (1 - alpha)
AlphaComposite(foreground, background, alpha) ==
    (foreground * alpha + background * (255 - alpha)) \div 255

\* cv2.cvtColor(..., cv2.COLOR_BGR2GRAY) of one 8-bit pixel
BgrToGray(p) ==
    (p[1] * 1868 + p[2] * 9617 + p[3] * 4899 + 8192) \div 16384

\* cv2.threshold(src, 10, 1, cv2.THRESH_BINARY) of one pixel
Threshold(v) == IF v > GtThresh THEN GtMaxval ELSE 0

\* the alpha values of a glyph's pixels that are followed: transparent,
\* faint, half and opaque
Alphas == {0, 1, 20, 128, 255}

NoPixel == [glyph |-> 0]

NotFollowed == [glyph |-> 0, color |-> InkColor]

\* lines 408 and 440-443 for one pixel of glyph number i, whose alpha and
\* colour are given: composite onto the all-ones layer, to gray, threshold
GroundTruthPixel(i, color, alpha) ==
    LET bgr == [c \in 1..3 |->
                   AlphaComposite(color[c], GtBackground, alpha)]
    IN  [glyph |-> i, alpha |-> alpha, color |-> color,
         gray |-> BgrToGray(bgr), mark |-> Threshold(BgrToGray(bgr))]

NoGlyph == [shape |-> <<0, 0>>, placed |-> 0]

InitLayer ==
    /\ layer_kind \in {"text", "fade"}
    /\ layer_shape \in CanvasShapes
    /\ layer_pc = "loop"
    /\ layer_occupied = {}
    /\ layer_all_words = {}
    /\ layer_followed = NotFollowed
    /\ layer_color = InkColor
    /\ layer_refused = NoGlyph
    /\ layer_img = "pending"
    /\ layer_ground_truth = NoPixel

IdleLayer ==
    /\ layer_kind = "idle"
    /\ layer_shape = <<0, 0>>
    /\ layer_pc = "idle"
    /\ layer_occupied = {}
    /\ layer_all_words = {}
    /\ layer_followed = NotFollowed
    /\ layer_color = InkColor
    /\ layer_refused = NoGlyph
    /\ layer_img = "pending"
    /\ layer_ground_truth = NoPixel

PlaceUnchecked(glyph, pos, step, follow) ==
    LET at == IF pos = NonePos THEN <<0, 0>> ELSE pos IN
    /\ layer_color' = Walk(layer_color, step)
    /\ layer_occupied' = IF pos = NonePos THEN layer_occupied
                         ELSE layer_occupied \cup {Rect(pos, glyph)}
    /\ layer_all_words' = layer_all_words \cup {Rect(at, glyph)}
    /\ layer_followed' =
          IF follow /\ layer_followed = NotFollowed
          THEN [glyph |-> Cardinality(layer_all_words') ,
                color |-> layer_color']
          ELSE layer_followed
    /\ layer_refused' = IF pos = NonePos
                        THEN [shape |-> glyph,
                              placed |-> Cardinality(layer_all_words)]
                        ELSE layer_refused
    /\ UNCHANGED layer_pc

\* one iteration of the while loop (lines 414-431 and 349-377) for a glyph
\* of this shape, given what get_next_word_pos answered and the colour step
PlaceOrBreak(glyph, pos, step, follow) ==
    IF pos = NonePos
    \* if state.get_next_word_pos(word.shape) is None: break
    THEN /\ layer_pc' = "after"
         /\ layer_refused' = [shape |-> glyph,
                              placed |-> Cardinality(layer_all_words)]
         /\ UNCHANGED <<layer_occupied, layer_all_words, layer_followed,
                        layer_color>>
    \* color += ...; white_to_alpha(word, color); get_padded_image(word)
    ELSE /\ layer_color' = Walk(layer_color, step)
         /\ layer_occupied' = layer_occupied \cup {Rect(pos, glyph)}
         /\ layer_all_words' = layer_all_words \cup {Rect(pos, glyph)}
         /\ layer_followed' =
               IF follow /\ layer_followed = NotFollowed
               THEN [glyph |-> Cardinality(layer_all_words'),
                     color |-> layer_color']
               ELSE layer_followed
         /\ UNCHANGED <<layer_pc, layer_refused>>

\* _add_text, lines 414-431: one word
AddTextWord ==
    /\ layer_kind = "text"
    /\ layer_pc = "loop"
    /\ UNCHANGED notLayer
    /\ \E word \in WordShapes, step \in ColorSteps, follow \in BOOLEAN :
       \E pos \in GetNextWordPos(layer_occupied, layer_shape,
                                 GlyphShape("text", word)) :
          PlaceOrBreak(GlyphShape("text", word), pos, step, follow)
    /\ UNCHANGED <<layer_kind, layer_shape, layer_img, layer_ground_truth>>

\* _add_text_fade, lines 349-377: one word
AddTextFadeWord ==
    /\ layer_kind = "fade"
    /\ layer_pc = "loop"
    /\ UNCHANGED notLayer
    /\ \E word \in WordShapes, step \in ColorSteps :
       \E pos \in GetNextWordPos(layer_occupied, layer_shape,
                                 GlyphShape("fade", word)) :
          PlaceOrBreak(GlyphShape("fade", word), pos, step, FALSE)
    /\ UNCHANGED <<layer_kind, layer_shape, layer_img, layer_ground_truth>>

\* _add_text, lines 433-449: return None, or composite the page and write
\* the ground truth, of which one pixel of the followed glyph is kept
AddTextReturn ==
    /\ layer_kind = "text"
    /\ layer_pc = "after"
    /\ UNCHANGED notLayer
    /\ IF layer_all_words = {}
       THEN /\ layer_img' = "None"
            /\ UNCHANGED layer_ground_truth
       ELSE /\ layer_img' = "composited"
            /\ IF layer_followed = NotFollowed
               THEN UNCHANGED layer_ground_truth
               ELSE \E alpha \in Alphas :
                       layer_ground_truth' =
                          GroundTruthPixel(layer_followed.glyph,
                                           layer_followed.color, alpha)
    /\ layer_pc' = "returned"
    /\ UNCHANGED <<layer_kind, layer_shape, layer_occupied, layer_all_words,
                   layer_followed, layer_color, layer_refused>>

\* _add_text_fade, lines 379-382: no ground truth is made
AddTextFadeReturn ==
    /\ layer_kind = "fade"
    /\ layer_pc = "after"
    /\ UNCHANGED notLayer
    /\ layer_img' = IF layer_all_words = {} THEN "unchanged"
                    ELSE "composited"
    /\ layer_pc' = "returned"
    /\ UNCHANGED <<layer_kind, layer_shape, layer_occupied, layer_all_words,
                   layer_followed, layer_color, layer_refused,
                   layer_ground_truth>>

NextLayer ==
    \/ AddTextWord
    \/ AddTextFadeWord
    \/ AddTextReturn
    \/ AddTextFadeReturn

----------------------------------------------------------------------------
(* The pipeline of crop_documents.py: pool.map(convert, ...), then         *)
(* split_into_sets(), then one create_lmdb per split and kind              *)

\* the processes of Pool(): forked at line 268, each with its own copy of
\* the module random; 0 is the main process
PoolWorkers == {1, 2}
Main == 0

\* one step of the generator of module random: a small full-cycle stand-in
\* for the Mersenne Twister, deterministic like it
RandomNext(state) == (3 * state + 1) % 7

RECURSIVE Draws(_, _)
\* the state after k draws
Draws(state, k) == IF k = 0 THEN state ELSE Draws(RandomNext(state), k - 1)

RandintShared(random, process, k) ==
    [random EXCEPT ![Main] = Draws(@, k)]

\* k calls of random.randint in this process: they advance the generator
\* of that process only
Randint(random, process, k) ==
    [random EXCEPT ![process] = Draws(@, k)]

RECURSIVE ShuffleFrom(_, _, _)
\* random.shuffle(x): for i in reversed(range(1, len(x))):
\*     j = randbelow(i + 1); x[i], x[j] = x[j], x[i]
ShuffleFrom(x, i, state) ==
    IF i < 1 THEN [sequence |-> x, random |-> state]
    ELSE LET drawn == RandomNext(state)
             j == drawn % (i + 1)
         IN  ShuffleFrom([x EXCEPT ![i + 1] = x[j + 1], ![j + 1] = x[i + 1]],
                         i - 1, drawn)

\* sequence = list(range(n)); random.shuffle(sequence)
Shuffle(n, state) == ShuffleFrom([i \in 1..n |-> i - 1], n - 1, state)

\* os.listdir(ORIGINAL_DIR): every document and its "_gt" companion
OriginalListing(n) ==
    [k \in 1..(2 * n) |-> [name |-> (k + 1) \div 2, isgt |-> k % 2 = 0]]

\* how convert ends for an original: rejected as too small, a patch
\* written, the garbage pair written, or an exception
ConvertOutcomes == {"small", "patch", "garbage", "raised"}

\* the tries of the crop loop that are followed: the first and the last
AttemptsOf(outcome) ==
    IF outcome = "small" THEN {0}
    ELSE IF outcome = "garbage" THEN {CropAttempts}
    ELSE {1, CropAttempts}

\* the order of the four cv2.imwrite calls of lines 108-111
PatchKinds == <<"original_images", "processed_gt", "recall_weights",
                "precision_weights">>

\* the stores of lines 281-295, in the order of the two loops
StoreOrder ==
    LET dirs == <<"train", "val", "test">>
        subdirs == <<"original_images", "processed_gt", "recall_weights",
                     "precision_weights">>
    IN  [k \in 1..12 |-> <<dirs[((k - 1) \div 4) + 1],
                           subdirs[((k - 1) % 4) + 1]>>]

InitPipe ==
    /\ pipe_pc = "start"
    /\ pipe_random = [p \in {Main} \cup PoolWorkers |-> RandomSeed]
    /\ pipe_listing \in {OriginalListing(n) : n \in 0..MaxOriginals}
    /\ pipe_tasks = [i \in 1..Len(pipe_listing) |-> "queued"]
    /\ pipe_running = [w \in PoolWorkers |-> 0]
    \* RESULTS_DIR as an earlier run left it, or with empty directories
    /\ \E earlier \in BOOLEAN :
          pipe_dirs = [d \in Sets \X Kinds |->
                         IF earlier /\ d[1] # "full" THEN {1} ELSE {}]
    /\ pipe_files = <<>>
    /\ pipe_sequence = <<>>
    /\ pipe_count = 0
    /\ pipe_labels = NoLabels
    /\ pipe_stores = <<>>
    /\ pipe_writing = [w \in PoolWorkers |-> 0]
    /\ pipe_accepted = {}

IdlePipe ==
    /\ pipe_pc = "idle"
    /\ pipe_random = [p \in {Main} \cup PoolWorkers |-> RandomSeed]
    /\ pipe_listing = <<>>
    /\ pipe_tasks = <<>>
    /\ pipe_running = [w \in PoolWorkers |-> 0]
    /\ pipe_dirs = [d \in Sets \X Kinds |-> {}]
    /\ pipe_files = <<>>
    /\ pipe_sequence = <<>>
    /\ pipe_count = 0
    /\ pipe_labels = NoLabels
    /\ pipe_stores = <<>>
    /\ pipe_writing = [w \in PoolWorkers |-> 0]
    /\ pipe_accepted = {}

\* lines 246-268: empty the results directory, make the directories, fork
\* the pool
PipeStart ==
    /\ pipe_pc = "start"
    /\ UNCHANGED notPipe
    /\ pipe_dirs' = [d \in Sets \X Kinds |-> {}]
    /\ pipe_random' = [p \in {Main} \cup PoolWorkers |-> pipe_random[Main]]
    /\ pipe_pc' = "map"
    /\ UNCHANGED <<pipe_listing, pipe_tasks, pipe_running, pipe_files,
                   pipe_sequence, pipe_count, pipe_labels, pipe_stores,
                   pipe_writing, pipe_accepted>>

\* the workers of the pool live from Pool() to the end of the script
PoolAlive == pipe_pc \notin {"idle", "start", "finished", "raised"}

\* a free worker takes the next task of the map
TaskStart(w) ==
    /\ PoolAlive
    /\ UNCHANGED notPipe
    /\ pipe_running[w] = 0
    /\ \E i \in 1..Len(pipe_tasks) :
          /\ pipe_tasks[i] = "queued"
          /\ \A j \in 1..(i - 1) : pipe_tasks[j] # "queued"
          /\ pipe_tasks' = [pipe_tasks EXCEPT ![i] = "running"]
          /\ pipe_running' = [pipe_running EXCEPT ![w] = i]
    /\ UNCHANGED <<pipe_pc, pipe_random, pipe_listing, pipe_dirs, pipe_files,
                   pipe_sequence, pipe_count, pipe_labels, pipe_stores,
                   pipe_writing, pipe_accepted>>

PatchNameOfGtFile(name, kind) ==
    IF kind = "processed_gt" THEN name + MaxOriginals + 1 ELSE name

\* lines 97-100: the four paths all end in os.path.basename(file)
PatchName(name, kind) == name

\* convert(args) in worker w, lines 46-95: from its call to its return or
\* its exception, or to the break of the crop loop with an accepted crop
TaskFinish(w) ==
    /\ PoolAlive
    /\ UNCHANGED notPipe
    /\ pipe_running[w] # 0
    /\ pipe_writing[w] = 0
    /\ LET i == pipe_running[w]
           file == pipe_listing[i]
       IN  IF file.isgt
           \* if "gt" in file: return
           THEN /\ pipe_tasks' = [pipe_tasks EXCEPT ![i] = "done"]
                /\ pipe_running' = [pipe_running EXCEPT ![w] = 0]
                /\ UNCHANGED <<pipe_random, pipe_writing, pipe_accepted>>
           ELSE \E outcome \in ConvertOutcomes :
                \E attempts \in AttemptsOf(outcome) :
                   \* lines 65-66: two draws for every try
                   /\ pipe_random' = Randint(pipe_random, w, 2 * attempts)
                   /\ IF outcome = "patch"
                      THEN /\ pipe_writing' = [pipe_writing EXCEPT ![w] = 1]
                           /\ pipe_accepted' = pipe_accepted \cup {file.name}
                           /\ UNCHANGED <<pipe_tasks, pipe_running>>
                      ELSE /\ pipe_tasks' = [pipe_tasks EXCEPT ![i] =
                                 IF outcome = "raised" THEN "raised"
                                 ELSE "done"]
                           /\ pipe_running' = [pipe_running EXCEPT ![w] = 0]
                           /\ UNCHANGED <<pipe_writing, pipe_accepted>>
    /\ UNCHANGED <<pipe_pc, pipe_listing, pipe_dirs, pipe_files,
                   pipe_sequence, pipe_count, pipe_labels, pipe_stores>>

\* convert in worker w, lines 108-111: the next of the four cv2.imwrite
\* calls; convert returns after the fourth
TaskWrite(w) ==
    /\ PoolAlive
    /\ UNCHANGED notPipe
    /\ pipe_writing[w] # 0
    /\ LET i == pipe_running[w]
           file == pipe_listing[i]
           kind == PatchKinds[pipe_writing[w]]
       IN  /\ pipe_dirs' = [pipe_dirs EXCEPT ![<<"full", kind>>] =
                               @ \cup {PatchName(file.name, kind)}]
           /\ IF pipe_writing[w] < Len(PatchKinds)
              THEN /\ pipe_writing' = [pipe_writing EXCEPT ![w] = @ + 1]
                   /\ UNCHANGED <<pipe_tasks, pipe_running>>
              ELSE /\ pipe_writing' = [pipe_writing EXCEPT ![w] = 0]
                   /\ pipe_tasks' = [pipe_tasks EXCEPT ![i] = "done"]
                   /\ pipe_running' = [pipe_running EXCEPT ![w] = 0]
    /\ UNCHANGED <<pipe_pc, pipe_random, pipe_listing, pipe_files,
                   pipe_sequence, pipe_count, pipe_labels, pipe_stores,
                   pipe_accepted>>

MapReturnAsync ==
    /\ pipe_pc = "map"
    /\ UNCHANGED notPipe
    /\ pipe_pc' = "split"
    /\ UNCHANGED <<pipe_random, pipe_listing, pipe_tasks, pipe_running,
                   pipe_dirs, pipe_files, pipe_sequence, pipe_count,
                   pipe_labels, pipe_stores,
                   pipe_writing, pipe_accepted>>

\* pool.map(...) returns, line 272: every task has ended, none by raising
MapReturn ==
    /\ pipe_pc = "map"
    /\ UNCHANGED notPipe
    /\ \A i \in 1..Len(pipe_tasks) : pipe_tasks[i] = "done"
    /\ pipe_pc' = "split"
    /\ UNCHANGED <<pipe_random, pipe_listing, pipe_tasks, pipe_running,
                   pipe_dirs, pipe_files, pipe_sequence, pipe_count,
                   pipe_labels, pipe_stores,
                   pipe_writing, pipe_accepted>>

\* pool.map(...) raises the exception of a task: the script ends there
MapRaise ==
    /\ pipe_pc = "map"
    /\ UNCHANGED notPipe
    /\ \E i \in 1..Len(pipe_tasks) : pipe_tasks[i] = "raised"
    /\ pipe_pc' = "raised"
    /\ UNCHANGED <<pipe_random, pipe_listing, pipe_tasks, pipe_running,
                   pipe_dirs, pipe_files, pipe_sequence, pipe_count,
                   pipe_labels, pipe_stores,
                   pipe_writing, pipe_accepted>>

\* split_into_sets, lines 118-125, in the main process
PipeSplitCall ==
    /\ pipe_pc = "split"
    /\ UNCHANGED notPipe
    /\ pipe_files' = SetToSeq(pipe_dirs[<<"full", "original_images">>])
    /\ LET shuffled == Shuffle(Len(pipe_files'), pipe_random[Main])
       IN  /\ pipe_sequence' = shuffled.sequence
           /\ pipe_random' = [pipe_random EXCEPT ![Main] = shuffled.random]
    /\ pipe_count' = 0
    /\ pipe_pc' = "move"
    /\ UNCHANGED <<pipe_listing, pipe_tasks, pipe_running, pipe_dirs,
                   pipe_labels, pipe_stores,
                   pipe_writing, pipe_accepted>>

\* split_into_sets, lines 129-147: one iteration
PipeSplitMove ==
    /\ pipe_pc = "move"
    /\ UNCHANGED notPipe
    /\ pipe_count < Len(pipe_sequence)
    /\ LET index == pipe_sequence[pipe_count + 1]
           file == pipe_files[index + 1]
       IN  pipe_dirs' = MoveFour(pipe_dirs, file,
                                 TargetSet(pipe_count, Len(pipe_files)))
    /\ pipe_count' = pipe_count + 1
    /\ UNCHANGED <<pipe_pc, pipe_random, pipe_listing, pipe_tasks,
                   pipe_running, pipe_files, pipe_sequence, pipe_labels,
                   pipe_stores,
                   pipe_writing, pipe_accepted>>

\* split_into_sets, lines 152-157, and its return
PipeSplitLabels ==
    /\ pipe_pc = "move"
    /\ UNCHANGED notPipe
    /\ pipe_count = Len(pipe_sequence)
    /\ pipe_labels' = [d \in {"train", "test", "val"} |->
            LabelLines(SetToSeq(pipe_dirs[<<d, "original_images">>]))]
    /\ pipe_pc' = "lmdb"
    /\ UNCHANGED <<pipe_random, pipe_listing, pipe_tasks, pipe_running,
                   pipe_dirs, pipe_files, pipe_sequence, pipe_count,
                   pipe_stores,
                   pipe_writing, pipe_accepted>>

\* lines 281-295: the next create_lmdb call, which opens the store and
\* writes it, or raises
PipeCreateLmdb ==
    /\ pipe_pc = "lmdb"
    /\ UNCHANGED notPipe
    /\ Len(pipe_stores) < Len(StoreOrder)
    /\ pipe_stores' = Append(pipe_stores, StoreOrder[Len(pipe_stores) + 1])
    /\ \E raises \in BOOLEAN :
          pipe_pc' = IF raises THEN "raised"
                     ELSE IF Len(pipe_stores') = Len(StoreOrder)
                          THEN "finished" ELSE "lmdb"
    /\ UNCHANGED <<pipe_random, pipe_listing, pipe_tasks, pipe_running,
                   pipe_dirs, pipe_files, pipe_sequence, pipe_count,
                   pipe_labels, pipe_writing, pipe_accepted>>

NextPipe ==
    \/ PipeStart
    \/ \E w \in PoolWorkers : TaskStart(w)
    \/ \E w \in PoolWorkers : TaskFinish(w)
    \/ \E w \in PoolWorkers : TaskWrite(w)
    \/ MapReturn
    \/ MapRaise
    \/ PipeSplitCall
    \/ PipeSplitMove
    \/ PipeSplitLabels
    \/ PipeCreateLmdb

----------------------------------------------------------------------------
(* create, statement by statement, over the process-wide generators of    *)
(* the modules random and numpy.random                                     *)

\* this Document, and another Document of the same process
This == 1
Other == 2
Documents == {This, Other}

\* the states of the stand-in generator
RandomStates == 0..6

\* random.seed(seed) and np.random.seed(seed): the state a seed gives
Seeded(seed) == seed % 7

\* the generator a decision draws from
Source(what) == IF what \in {"fade", "color"} THEN "np" ELSE "random"

\* a decision of create: what was decided and the number drawn for it
Decision(what, value) == [what |-> what, value |-> value]

RECURSIVE DrawAll(_, _, _)
\* the decisions named in whats, drawn one after the other; gen holds the
\* state of the two generators
DrawAll(whats, gen, made) ==
    IF whats = <<>> THEN [gen |-> gen, made |-> made]
    ELSE LET what == Head(whats)
             drawn == RandomNext(gen[Source(what)])
         IN  DrawAll(Tail(whats), [gen EXCEPT ![Source(what)] = drawn],
                     Append(made, Decision(what, drawn)))

\* np.random.random() < 0.3, for a generator of seven values
Below03(value) == 10 * value < 3 * 7

\* the draws of the loop of _add_text and _add_text_fade that places n
\* glyphs: the folder; for each glyph its image and the step of the ink
\* colour; the image of the glyph that finds no place
RECURSIVE LayerDraws(_)
LayerDraws(n) ==
    IF n = 0 THEN <<"folder", "glyph">>
    ELSE <<"folder", "glyph", "color">> \o Tail(LayerDraws(n - 1))

\* a stage of create that was begun, and whether it did its work
Stage(name, ok) == [name |-> name, ok |-> ok]

InitCreate ==
    /\ create_pc = "new"
    /\ create_seed = [d \in Documents |-> NoSeed]
    \* the generators as the start of the process left them
    /\ create_random \in RandomStates
    /\ create_np_random \in RandomStates
    /\ create_bypass = FALSE
    /\ create_img = "none"
    /\ create_result = NonePath
    /\ create_result_ground_truth = NonePath
    /\ create_fs = {}
    /\ create_stages = <<>>
    /\ create_decisions = <<>>

IdleCreate ==
    /\ create_pc = "idle"
    /\ create_seed = [d \in Documents |-> NoSeed]
    /\ create_random = 0
    /\ create_np_random = 0
    /\ create_bypass = FALSE
    /\ create_img = "none"
    /\ create_result = NonePath
    /\ create_result_ground_truth = NonePath
    /\ create_fs = {}
    /\ create_stages = <<>>
    /\ create_decisions = <<>>

\* Document(seed=...) for this Document or for another one, lines 92-106:
\* the constructor seeds the generators of the process with its seed
ConstructDocument(d) ==
    /\ create_pc \in {"new", "ready"}
    /\ UNCHANGED notCreate
    /\ create_seed[d] = NoSeed
    /\ d = This => create_pc = "new"
    \* the seed given, or the one _assign_random_seed has drawn
    /\ \E seed \in SeedChoices :
          /\ create_seed' = [create_seed EXCEPT ![d] = seed]
          /\ create_random' = Seeded(seed)
          /\ create_np_random' = Seeded(seed)
    /\ create_pc' = IF d = This THEN "ready" ELSE create_pc
    /\ UNCHANGED <<create_bypass, create_img, create_result,
                   create_result_ground_truth, create_fs, create_stages,
                   create_decisions>>

\* the draws of one statement of create
Decide(whats) ==
    LET drawn == DrawAll(whats, [random |-> create_random,
                                 np |-> create_np_random],
                         create_decisions)
    IN  /\ create_random' = drawn.gen.random
        /\ create_np_random' = drawn.gen.np
        /\ create_decisions' = drawn.made

\* create(bypass) of this Document, lines 180-187: the background is chosen
CreateCall ==
    /\ create_pc = "ready"
    /\ UNCHANGED notCreate
    /\ create_bypass' \in BOOLEAN
    /\ Decide(<<"background">>)
    /\ create_pc' = IF create_bypass' THEN "imread" ELSE "xml_1"
    /\ UNCHANGED <<create_seed, create_img, create_result,
                   create_result_ground_truth, create_fs, create_stages>>

\* _generate_degradation_xml(..., index, True, ...), lines 206 and 232:
\* strength and density are drawn and the descriptor is written
GenerateDegradationXml ==
    /\ create_pc \in {"xml_1", "xml_2"}
    /\ UNCHANGED notCreate
    /\ LET index == IF create_pc = "xml_1" THEN 1 ELSE 2
       IN  /\ create_fs' = create_fs \cup {XmlPath(create_seed[This], index)}
           /\ create_pc' = IF index = 1 THEN "tool_1" ELSE "tool_2"
    /\ Decide(<<"strength", "density">>)
    /\ UNCHANGED <<create_seed, create_bypass, create_img, create_result,
                   create_result_ground_truth, create_stages>>

\* subprocess.check_call(["java", "-jar", "DivaDid.jar", first_xml]),
\* line 211
FirstPass ==
    /\ create_pc = "tool_1"
    /\ UNCHANGED notCreate
    /\ \E run \in ToolRuns :
          /\ create_stages' = Append(create_stages,
                                     Stage("pass 1", run # "fail"))
          /\ create_fs' = IF run = "ok"
                          THEN create_fs
                                  \cup {DegradedPath(create_seed[This], 1)}
                          ELSE create_fs
          /\ create_pc' = IF run = "fail" THEN "raised" ELSE "imread"
    /\ UNCHANGED <<create_seed, create_random, create_np_random,
                   create_bypass, create_img, create_result,
                   create_result_ground_truth, create_decisions>>

\* img = cv2.imread(...); if img is None: ..., lines 189-191 and 216-220
Imread ==
    /\ create_pc = "imread"
    /\ UNCHANGED notCreate
    /\ LET seed == create_seed[This]
           first_xml == XmlPath(seed, 1)
           first_image == DegradedPath(seed, 1)
       IN  \E readable \in BOOLEAN :
              IF readable /\ (create_bypass \/ first_image \in create_fs)
              THEN /\ create_img' = "image"
                   /\ create_pc' = "fade?"
                   /\ UNCHANGED create_fs
              ELSE IF create_bypass
              THEN /\ create_pc' = "returned"
                   /\ UNCHANGED <<create_img, create_fs>>
              \* os.remove(first_xml); os.remove(first_image); return
              ELSE /\ create_fs' = create_fs \ {first_xml, first_image}
                   /\ create_pc' = IF first_image \in create_fs
                                   THEN "returned" ELSE "raised"
                   /\ UNCHANGED create_img
    /\ UNCHANGED <<create_seed, create_random, create_np_random,
                   create_bypass, create_result, create_result_ground_truth,
                   create_stages, create_decisions>>

\* if np.random.random() < 0.3:, lines 192 and 221
FadeDecision ==
    /\ create_pc = "fade?"
    /\ UNCHANGED notCreate
    /\ Decide(<<"fade">>)
    /\ create_pc' = IF Below03(create_np_random') THEN "_add_text_fade"
                    ELSE "_add_text"
    /\ UNCHANGED <<create_seed, create_bypass, create_img, create_result,
                   create_result_ground_truth, create_fs, create_stages>>

\* img = self._add_text_fade(img), lines 193 and 222: whatever it places,
\* it returns an image and touches neither the ground truth nor a file
AddTextFade ==
    /\ create_pc = "_add_text_fade"
    /\ UNCHANGED notCreate
    /\ \E placed \in 0..MaxWords :
          /\ Decide(LayerDraws(placed))
          /\ create_stages' = Append(create_stages,
                                     Stage("fade", placed > 0))
    /\ create_pc' = "_add_text"
    /\ UNCHANGED <<create_seed, create_bypass, create_img, create_result,
                   create_result_ground_truth, create_fs>>

\* img = self._add_text(img), lines 194 and 223: with no glyph placed it
\* returns None (lines 433-435); otherwise it composites the layer, sets
\* result_ground_truth and writes the ground truth (lines 437-449)
AddText ==
    /\ create_pc = "_add_text"
    /\ UNCHANGED notCreate
    /\ \E placed \in 0..MaxWords :
          /\ Decide(LayerDraws(placed))
          /\ create_stages' = Append(create_stages,
                                     Stage("text", placed > 0))
          /\ IF placed = 0
             THEN /\ create_img' = "none"
                  /\ UNCHANGED <<create_result_ground_truth, create_fs>>
             ELSE /\ create_img' = "image"
                  /\ create_result_ground_truth' = GtPath(create_seed[This])
                  /\ create_fs' = create_fs \cup {GtPath(create_seed[This])}
    /\ create_pc' = "imwrite"
    /\ UNCHANGED <<create_seed, create_bypass, create_result>>

\* cv2.imwrite(path, img), lines 196-202 and 225-227; with bypass
\* self.result = path and return
Imwrite ==
    /\ create_pc = "imwrite"
    /\ UNCHANGED notCreate
    /\ LET path == AugmentedPath(create_seed[This])
       IN  \E imwrite \in IF create_img = "none" THEN ImwriteNone
                          ELSE {"written"} :
              /\ create_fs' = IF imwrite \in {"written", "emptyfile"}
                              THEN create_fs \cup {path} ELSE create_fs
              /\ create_pc' = IF imwrite = "error" THEN "raised"
                              ELSE IF create_bypass THEN "returned"
                              ELSE "xml_2"
              /\ create_result' = IF imwrite # "error" /\ create_bypass
                                  THEN path ELSE create_result
    /\ UNCHANGED <<create_seed, create_random, create_np_random,
                   create_bypass, create_img, create_result_ground_truth,
                   create_stages, create_decisions>>

\* lines 238-245: the second run of the tool, then self.result =
\* second_image and the removal of the descriptors and of first_image
SecondPass ==
    /\ create_pc = "tool_2"
    /\ UNCHANGED notCreate
    /\ LET seed == create_seed[This]
       IN  \E run \in ToolRuns :
              /\ create_stages' = Append(create_stages,
                                         Stage("pass 2", run # "fail"))
              /\ IF run = "fail"
                 THEN /\ create_pc' = "raised"
                      /\ UNCHANGED <<create_result, create_fs>>
                 ELSE /\ create_pc' = "returned"
                      /\ create_result' = DegradedPath(seed, 2)
                      /\ create_fs' =
                            (create_fs \cup
                               (IF run = "ok" THEN {DegradedPath(seed, 2)}
                                ELSE {}))
                            \ {XmlPath(seed, 1), XmlPath(seed, 2),
                               DegradedPath(seed, 1)}
    /\ UNCHANGED <<create_seed, create_random, create_np_random,
                   create_bypass, create_img, create_result_ground_truth,
                   create_decisions>>

NextCreate ==
    \/ \E d \in Documents : ConstructDocument(d)
    \/ CreateCall
    \/ GenerateDegradationXml
    \/ FirstPass
    \/ Imread
    \/ FadeDecision
    \/ AddTextFade
    \/ AddText
    \/ Imwrite
    \/ SecondPass

----------------------------------------------------------------------------
(* Specifications                                                          *)

InitSpecLmdb ==
    InitLmdb /\ IdleConvert /\ IdleSplit /\ IdleDoc
       /\ IdleLayer /\ IdlePipe /\ IdleCreate

SpecLmdb == InitSpecLmdb /\ [][NextLmdb]_vars

InitSpecConvert ==
    InitConvert /\ IdleLmdb /\ IdleSplit /\ IdleDoc
       /\ IdleLayer /\ IdlePipe /\ IdleCreate

SpecConvert == InitSpecConvert /\ [][NextConvert]_vars

InitSpecSplit ==
    InitSplit /\ IdleLmdb /\ IdleConvert /\ IdleDoc
       /\ IdleLayer /\ IdlePipe /\ IdleCreate

SpecSplit == InitSpecSplit /\ [][NextSplit]_vars

\* one Document, its methods called in any order
InitSpecDoc ==
    InitDocWith({1}, "any") /\ IdleLmdb /\ IdleConvert /\ IdleSplit
       /\ IdleLayer /\ IdlePipe /\ IdleCreate

SpecDoc == InitSpecDoc /\ [][NextDoc]_vars

\* the workers of one run, one Document each, sharing the output directory
InitSpecWorkers ==
    InitDocWith(Workers, "lifecycle") /\ IdleLmdb /\ IdleConvert
       /\ IdleSplit /\ IdleLayer /\ IdlePipe /\ IdleCreate

\* one layer of glyphs, real text or faded
InitSpecLayer ==
    InitLayer /\ IdleLmdb /\ IdleConvert /\ IdleSplit /\ IdleDoc
       /\ IdlePipe /\ IdleCreate

SpecLayer == InitSpecLayer /\ [][NextLayer]_vars

\* one run of the pipeline
InitSpecPipe ==
    InitPipe /\ IdleLmdb /\ IdleConvert /\ IdleSplit /\ IdleDoc
       /\ IdleLayer /\ IdleCreate

SpecPipe == InitSpecPipe /\ [][NextPipe]_vars

\* one create call of a Document, other Documents being constructed
InitSpecCreate ==
    InitCreate /\ IdleLmdb /\ IdleConvert /\ IdleSplit /\ IdleDoc
       /\ IdleLayer /\ IdlePipe

SpecCreate == InitSpecCreate /\ [][NextCreate]_vars

SpecWorkers == InitSpecWorkers /\ [][NextDoc]_vars

----------------------------------------------------------------------------
(* Claims about create_lmdb, checked under SpecLmdb                        *)

MidCommits == SelectSeq(lmdb_commits, LAMBDA c : c.kind = "mid")
FinalCommits == SelectSeq(lmdb_commits, LAMBDA c : c.kind = "final")

RECURSIVE DueBelow(_)
\* the mid-iteration commits the loop makes over the indices 0..n-1
DueBelow(n) ==
    IF n = 0 THEN <<>>
    ELSE IF (n - 1) % CommitEvery = 0
         THEN Append(DueBelow(n - 1),
                     [kind |-> "mid", x |-> n - 1, writes |-> n])
         ELSE DueBelow(n - 1)

\* C1 as stated: a mid-iteration commit happens only after the 10th, 20th,
\* 30th ... write, and a completed run over 25 files made exactly 2
\* mid-iteration commits followed by one final commit.
C1_EveryTenthWrite ==
    /\ \A i \in 1..Len(MidCommits) :
          /\ MidCommits[i].writes > 0
          /\ MidCommits[i].writes % CommitEvery = 0
    /\ (lmdb_pc = "done" /\ Len(lmdb_files) = 25) =>
          /\ Len(MidCommits) = 2
          /\ Len(FinalCommits) = 1

\* C1 amended: a mid-iteration commit happens right after the write of the
\* file with 0-based index x exactly when x % 10 = 0 (after the 1st, 11th,
\* 21st ... write) and at no other point; a completed run ends with exactly
\* one final commit, the last commit of all; over 25 files that is 3
\* mid-iteration commits (indices 0, 10, 20) and then the final commit.
C1_CommitAtIndexMultiples ==
    /\ lmdb_pc \in {"loop", "done"} => MidCommits = DueBelow(lmdb_x)
    /\ lmdb_pc = "done" =>
          /\ Len(FinalCommits) = 1
          /\ lmdb_commits[Len(lmdb_commits)].kind = "final"
    /\ lmdb_pc # "done" => Len(FinalCommits) = 0
    /\ (lmdb_pc = "done" /\ Len(lmdb_files) = 25) =>
          /\ Len(MidCommits) = 3
          /\ \A i \in 1..3 : MidCommits[i].x = CommitEvery * (i - 1)

C1_Witness ==
    /\ lmdb_pc = "done"
    /\ Len(lmdb_files) = 25
    /\ Len(lmdb_commits) = 4

\* C8: when create_lmdb completes over N files the store holds exactly N
\* committed records, one per input file, with key indices exactly 0..N-1
\* (no duplicate, no gap), and nothing written is left uncommitted.
C8_StoreComplete ==
    lmdb_pc = "done" =>
        LET n == Len(lmdb_files) IN
        /\ lmdb_txn = {}
        /\ Cardinality(lmdb_store) = n
        /\ {k[2] : k \in lmdb_store} = 0..(n - 1)
        /\ \A k \in lmdb_store : k = Key(k[2], lmdb_files[k[2] + 1])
        /\ \A i \in 1..n : \E k \in lmdb_store : k[3] = lmdb_files[i]

C8_Witness ==
    /\ lmdb_pc = "done"
    /\ Len(lmdb_files) = 25
    /\ Cardinality(lmdb_store) = 25

\* the last index below i at which the loop committed, or NoIndex
LastCommitBelow(i) ==
    IF i = 0 THEN NoIndex ELSE ((i - 1) \div CommitEvery) * CommitEvery

\* C9: when handling the i-th file fails, its filename is reported before the
\* exception propagates, the exception is re-raised (the file is not
\* skipped), no later file is processed, the final commit is not executed,
\* and the records committed before the failure remain in the store.
C9_FailureHalts ==
    /\ lmdb_failed # NoIndex => lmdb_pc \in {"except", "raised"}
    /\ lmdb_pc \in {"except", "raised"} =>
          /\ lmdb_failed # NoIndex
          /\ lmdb_x = lmdb_failed
          /\ Len(FinalCommits) = 0
          /\ lmdb_store = {Key(j, lmdb_files[j + 1]) :
                              j \in 0..LastCommitBelow(lmdb_failed)}
    /\ lmdb_pc = "raised" =>
          lmdb_out = <<(<<"Error occured on:", lmdb_files[lmdb_failed + 1]>>)>>
    /\ lmdb_pc # "raised" => lmdb_out = <<>>

C9_Witness ==
    /\ lmdb_pc = "raised"
    /\ lmdb_failed = 13
    /\ Cardinality(lmdb_store) = 11
    /\ Cardinality(lmdb_txn) = 2

\* C17: the record of the file at listing index x is stored under the key
\* "<76547000 + 37*x>:<x>:<basename without extension>"; the keys of distinct
\* entries of one store are pairwise distinct, and the numeric prefix is
\* strictly increasing in insertion order.
C17_KeysDistinctIncreasing ==
    [][LET old == lmdb_txn \cup lmdb_store
           new == lmdb_txn' \cup lmdb_store'
       IN  /\ \A k \in new :
                 /\ k[2] \in 0..(Len(lmdb_files) - 1)
                 /\ k[1] = 76547000 + 37 * k[2]
                 /\ k[3] = lmdb_files[k[2] + 1]
           /\ \A k1, k2 \in new :
                 /\ k1[2] # k2[2] => k1[1] # k2[1]
                 /\ k1[2] = k2[2] => k1 = k2
           /\ \A k \in new \ old : \A j \in old : j[1] < k[1]]_vars

C17_Witness ==
    /\ lmdb_pc = "done"
    /\ Len(lmdb_files) = 25
    /\ <<76547888, 24, lmdb_files[25]>> \in lmdb_store
    /\ <<76547000, 0, lmdb_files[1]>> \in lmdb_store

\* C22: at every point during create_lmdb at most 10 records are written
\* and not yet committed, and a record that has been committed stays in the
\* store whatever happens later in the iteration: a failing read, package,
\* put or commit, or the process stopping where it is.
C22_PendingBoundedCommittedKept ==
    /\ [](Cardinality(lmdb_txn) <= 10)
    /\ [][/\ lmdb_store \subseteq lmdb_store'
          /\ lmdb_txn' \cap lmdb_store' = {}]_vars

C22_Witness ==
    /\ lmdb_pc = "raised"
    /\ lmdb_failed = 20
    /\ Cardinality(lmdb_txn) = 10
    /\ Cardinality(lmdb_store) = 11

----------------------------------------------------------------------------
(* Claims about convert, checked under SpecConvert                         *)

BigEnough ==
    /\ ~convert_args.isgt
    /\ convert_shape[1] >= PatchSize
    /\ convert_shape[2] >= PatchSize

PatchWritten == \E f \in convert_written : f.loc # "garbage"
GarbageWritten == \E f \in convert_written : f.loc = "garbage"

\* C2 as stated: for an original of height and width at least 256, convert
\* makes at most 5 crop attempts, stops at the first whose edge-pixel count
\* exceeds 1% of the crop area and writes that crop as the patch; after 5
\* failed attempts it writes exactly one garbage pair (the 5th crop) and no
\* patch file; a run never produces both and never produces neither.
C2_PatchXorGarbage ==
    BigEnough =>
        /\ convert_x <= CropAttempts - 1
        /\ convert_pc = "write" =>
              Accepts(convert_pixel_count, convert_crop)
        /\ PatchWritten =>
              /\ convert_pc = "returned"
              /\ Accepts(convert_pixel_count, convert_crop)
              /\ convert_written =
                    PatchFiles(convert_crop, convert_args.grayscale)
        /\ GarbageWritten =>
              /\ convert_pc = "returned"
              /\ convert_x = CropAttempts - 1
              /\ ~Accepts(convert_pixel_count, convert_crop)
              /\ convert_written = GarbageFiles(convert_crop)
        /\ convert_pc \in {"returned", "raised"} =>
              (PatchWritten \/ GarbageWritten)

\* C4 as stated: for an original of height and width at least 256, every
\* crop convert attempts lies fully inside the image, is exactly 256 rows by
\* 256 columns, and is the same rectangle of the image and of the mask.
C4_CropInsideAndSquare ==
    (BigEnough /\ convert_crop.taken) =>
        /\ SliceLen(convert_crop.rows) = PatchSize
        /\ SliceLen(convert_crop.cols) = PatchSize
        /\ convert_crop.top_left_y + PatchSize <= convert_shape[1]
        /\ convert_crop.top_left_y + PatchSize <= convert_shape[2]
        /\ convert_crop.gt_rows = convert_crop.rows
        /\ convert_crop.gt_cols = convert_crop.cols

\* C18: if the original's height or width is less than 256, convert rejects
\* it immediately: it makes no crop attempt and writes neither patch files
\* nor garbage files.
C18_SmallRejected ==
    (/\ ~convert_args.isgt
     /\ (convert_shape[1] < 256 \/ convert_shape[2] < 256))
    => /\ convert_pc \in {"call", "returned"}
       /\ convert_x = 0
       /\ convert_crop = NoCrop
       /\ convert_written = {}

C18_Witness ==
    /\ ~convert_args.isgt
    /\ convert_shape = <<300, 100>>
    /\ convert_pc = "returned"
    /\ convert_written = {}

----------------------------------------------------------------------------
(* Claims about split_into_sets, checked under SpecSplit                   *)

InSplit(d) == split_dirs[<<d, "original_images">>]

\* C3 as stated: N patches are partitioned at 60% and 80% of N, the first
\* 60% of the shuffled sequence to train, the next 20% to val, the rest to
\* test; 10 patches give 6 in train, 2 in val and 2 in test.
C3_SixtyTwentyTwenty ==
    split_pc = "returned" =>
        LET n == Len(split_files) IN
        /\ Cardinality(InSplit("train")) = (n * 6) \div 10
        /\ Cardinality(InSplit("train")) + Cardinality(InSplit("val"))
              = (n * 8) \div 10
        /\ n = 10 =>
              /\ Cardinality(InSplit("train")) = 6
              /\ Cardinality(InSplit("val")) = 2
              /\ Cardinality(InSplit("test")) = 2

\* C5: after split_into_sets returns, every file name that was in
\* full/original_images is in exactly one of train, val, test; the four
\* artifacts of a name are in the same split; the splits are pairwise
\* disjoint; and the four full/ directories are empty.
C5_MovedPartition ==
    split_pc = "returned" =>
        LET names == {split_files[i] : i \in 1..Len(split_files)} IN
        /\ \A f \in names :
              \E d \in {"train", "val", "test"} :
                 /\ \A k \in Kinds : f \in split_dirs[<<d, k>>]
                 /\ \A e \in {"train", "val", "test"} \ {d} :
                       \A k \in Kinds : f \notin split_dirs[<<e, k>>]
        /\ \A d \in {"train", "val", "test"} :
              \A k \in Kinds : split_dirs[<<d, k>>] \subseteq names
        /\ \A k \in Kinds : split_dirs[<<"full", k>>] = {}

C5_Witness ==
    /\ split_pc = "returned"
    /\ Len(split_files) = 10
    /\ \A d \in {"train", "val", "test"} : InSplit(d) # {}

\* the names the loop moved into split d: those at the positions of the
\* shuffled sequence that fall to d
MovedTo(d) ==
    {split_files[split_sequence[c] + 1] :
        c \in {c \in 1..Len(split_sequence) :
                  TargetSet(c - 1, Len(split_files)) = d}}

\* C16: after split_into_sets, each of train.txt, val.txt and test.txt lists
\* exactly the file names that were moved into that split (none missing,
\* extra or duplicated), one per line in the form "./<name>".
C16_ManifestsListMoved ==
    split_pc = "returned" =>
        \A d \in {"train", "val", "test"} :
           LET lines == split_labels[d] IN
           /\ \A i \in 1..Len(lines) :
                 /\ Len(lines[i]) = 2
                 /\ lines[i][1] = "./"
           /\ {lines[i][2] : i \in 1..Len(lines)} = MovedTo(d)
           /\ Len(lines) = Cardinality(MovedTo(d))

C16_Witness ==
    /\ split_pc = "returned"
    /\ Len(split_files) = 10
    /\ Len(split_labels["train"]) = 5
    /\ Len(split_labels["val"]) = 3
    /\ Len(split_labels["test"]) = 2

----------------------------------------------------------------------------
(* Claims about Document, checked under SpecDoc and SpecWorkers            *)

Last(w) == doc_log[w][Len(doc_log[w])]

\* C6: when a Document has no result, save and save_ground_truth return
\* without any side effect: no directory or file is created or deleted and
\* the fields of the Document are unchanged; also after a create that
\* aborted.
C6_NoResultNoEffect ==
    [][\A w \in Workers :
          (/\ doc_calls'[w] = doc_calls[w] + 1
           /\ doc_log'[w][Len(doc_log'[w])].op
                 \in {"save", "save_ground_truth"}
           /\ doc_result[w] = NonePath)
          => /\ doc_log'[w][Len(doc_log'[w])].outcome = "returned"
             /\ doc_fs' = doc_fs
             /\ doc_writes' = doc_writes
             /\ doc_pc' = doc_pc
             /\ doc_result' = doc_result
             /\ doc_result_ground_truth' = doc_result_ground_truth
             /\ doc_random_seed' = doc_random_seed]_vars

C6_Witness ==
    \E w \in Workers :
       /\ doc_calls[w] = 3
       /\ Len(doc_log[w]) = 2
       /\ doc_log[w][1].op = "create"
       /\ doc_log[w][1].aborted = "first_image"
       /\ doc_log[w][1].outcome = "returned"
       /\ doc_log[w][2].op \in {"save", "save_ground_truth"}
       /\ doc_log[w][2].aborted = "no result"
       /\ doc_result[w] = NonePath
       /\ doc_pc[w] = "ready"

\* C7 as stated: when the background image or the first-pass degraded image
\* is unreadable or missing as create loads it, create returns normally with
\* result = None, and every temp file it had produced is deleted.
C7_UnreadableImageAborts ==
    \A w \in Workers :
       (/\ doc_log[w] # <<>>
        /\ Last(w).op = "create"
        /\ Last(w).aborted \in {"background", "first_image"})
       => /\ Last(w).outcome = "returned"
          /\ doc_pc[w] = "ready"
          /\ doc_result[w] = NonePath
          /\ Last(w).produced \cap doc_fs = {}

\* the paths a Document of this seed writes
SeedPaths(seed) ==
    {ImgPath(seed), ImgGtPath(seed), AugmentedPath(seed), GtPath(seed),
     DegradedPath(seed, 1), DegradedPath(seed, 2),
     XmlPath(seed, 1), XmlPath(seed, 2)}

\* C10 as stated: two Documents constructed without an explicit seed by
\* concurrent workers sharing one output directory obtain different seeds
\* and disjoint file paths, and no two workers ever write the same path.
C10_SeedsDistinct ==
    \A w1, w2 \in Workers :
       (/\ w1 # w2
        /\ ~doc_explicit[w1] /\ ~doc_explicit[w2]
        /\ doc_pc[w1] = "ready" /\ doc_pc[w2] = "ready")
       => /\ doc_random_seed[w1] # doc_random_seed[w2]
          /\ SeedPaths(doc_random_seed[w1])
                \cap SeedPaths(doc_random_seed[w2]) = {}
          /\ ~\E p \in SeedPaths(doc_random_seed[w1]) :
                <<p, w1>> \in doc_writes /\ <<p, w2>> \in doc_writes

\* C11 as stated: when either run of the external degradation tool exits
\* non-zero during create, the Document ends with result = None and every
\* temp file it had produced up to that point (descriptor files, first-pass
\* degraded image, text-augmented page, ground-truth image) is removed.
C11_ToolFailureCleansUp ==
    \A w \in Workers :
       (/\ doc_log[w] # <<>>
        /\ Last(w).op = "create"
        /\ Last(w).aborted = "tool")
       => /\ doc_result[w] = NonePath
          /\ Last(w).produced \cap doc_fs = {}

\* C12 as stated: if the real text layer places no glyph (_add_text returns
\* no image), create aborts with result = None, with and without bypass: no
\* page image is written, no second degradation pass is started and no
\* ground-truth path is recorded.  Stated of a Document's first create, so
\* that no earlier create has set result.
C12_EmptyTextAborts ==
    \A w \in Workers :
       (/\ doc_log[w] # <<>>
        /\ Last(w).op = "create"
        /\ Last(w).aborted = "text"
        /\ doc_calls[w] = 1)
       => /\ Last(w).outcome = "returned"
          /\ doc_result[w] = NonePath
          /\ doc_result_ground_truth[w] = NonePath
          /\ AugmentedPath(doc_random_seed[w]) \notin Last(w).produced
          /\ XmlPath(doc_random_seed[w], 2) \notin Last(w).produced
          /\ DegradedPath(doc_random_seed[w], 2) \notin Last(w).produced

\* the call that the step of worker w has just made
Made(w) == doc_log'[w][Len(doc_log'[w])]

\* C19: after a successful create, save copies the page image to the output
\* location and deletes the temp source, while save_ground_truth copies the
\* ground truth and leaves its temp source in place; so save_ground_truth
\* succeeds after save and when repeated, each time from the same source.
C19_SaveConsumesGroundTruthStays ==
    [][\A w \in Workers :
          LET seed == doc_random_seed[w]
              result == doc_result[w]
              gt == doc_result_ground_truth[w]
              called == doc_calls'[w] = doc_calls[w] + 1
          IN  /\ (/\ called /\ Made(w).op = "save"
                  /\ result # NonePath /\ result \in doc_fs)
                 => /\ Made(w).outcome = "returned"
                    /\ doc_pc'[w] = "ready"
                    /\ ImgPath(seed) \in doc_fs'
                    /\ result \notin doc_fs'
              /\ (/\ called /\ Made(w).op = "save_ground_truth"
                  /\ result # NonePath /\ gt # NonePath /\ gt \in doc_fs)
                 => /\ Made(w).outcome = "returned"
                    /\ doc_pc'[w] = "ready"
                    /\ ImgGtPath(seed) \in doc_fs'
                    /\ (result \in doc_fs') = (result \in doc_fs)
                    /\ doc_result'[w] = result
              /\ (gt # NonePath /\ gt \in doc_fs)
                 => /\ doc_result_ground_truth'[w] = gt
                    /\ gt \in doc_fs']_vars

C19_Witness ==
    \E w \in Workers :
       /\ doc_calls[w] = 4
       /\ doc_pc[w] = "ready"
       /\ Len(doc_log[w]) = 2
       /\ \A i \in 1..2 :
             /\ doc_log[w][i].op = "save_ground_truth"
             /\ doc_log[w][i].aborted = "no"
       /\ <<ImgPath(doc_random_seed[w]), w>> \in doc_writes
       /\ doc_result[w] \notin doc_fs
       /\ doc_result_ground_truth[w] \in doc_fs

\* C25 as stated: in every reachable state of a Document, result being set
\* implies result_ground_truth is set, so that save_ground_truth, which
\* guards only on result, never copies from an unset ground-truth path,
\* whatever creates (bypass or not, succeeding or aborting), saves and
\* save_ground_truths preceded it.
C25_ResultImpliesGroundTruth ==
    \A w \in Workers :
       /\ doc_result[w] # NonePath => doc_result_ground_truth[w] # NonePath
       /\ (/\ doc_log[w] # <<>>
           /\ Last(w).op = "save_ground_truth"
           /\ Last(w).aborted = "source")
          => doc_result_ground_truth[w] # NonePath

----------------------------------------------------------------------------
(* Claims about one layer of glyphs, checked under SpecLayer               *)

C14_InkMarked ==
    (layer_ground_truth # NoPixel /\ layer_ground_truth.alpha > 0)
    => layer_ground_truth.mark = 1

----------------------------------------------------------------------------
(* Claims about the pipeline, checked under SpecPipe                       *)

RECURSIVE MovedFrom(_, _, _, _)
\* the directories after the moves of positions count.. of this sequence
MovedFrom(dirs, files, sequence, count) ==
    IF count >= Len(sequence) THEN dirs
    ELSE MovedFrom(MoveFour(dirs, files[sequence[count + 1] + 1],
                            TargetSet(count, Len(files))),
                   files, sequence, count + 1)

\* what the seed and the listing of full/ alone determine: the partition
SplitOf(files) ==
    MovedFrom([d \in Sets \X Kinds |->
                  IF d[1] = "full" THEN {files[i] : i \in 1..Len(files)}
                  ELSE {}],
              files, Shuffle(Len(files), RandomSeed).sequence, 0)

\* C15: two runs of the pipeline with the same shuffle seed and the same
\* file list produce the same train/val/test partition and the same
\* manifests, however many crop attempts the parallel convert stage made:
\* the partition and the manifests of a run are a function of the seed and
\* of the listing the splitter reads, and of nothing else.
C15_SplitDependsOnSeedAndListing ==
    pipe_labels # NoLabels =>
        /\ pipe_sequence = Shuffle(Len(pipe_files), RandomSeed).sequence
        /\ pipe_dirs = SplitOf(pipe_files)
        /\ pipe_labels = [d \in {"train", "test", "val"} |->
              LabelLines(SetToSeq(SplitOf(pipe_files)
                                     [<<d, "original_images">>]))]

C15_Witness ==
    /\ pipe_pc = "finished"
    /\ Len(pipe_files) = 3
    /\ pipe_sequence # <<0, 1, 2>>
    /\ pipe_random[1] # RandomSeed
    /\ pipe_random[2] # RandomSeed
    /\ pipe_random[1] # pipe_random[2]
    /\ \A d \in {"train", "test", "val"} : Len(pipe_labels[d]) = 1

\* C20: no file move of the splitter starts before every parallel convert
\* task has finished, and no record store is opened or written before the
\* splitter has moved every file and written all three manifests.
C20_StagesInOrder ==
    /\ (\/ pipe_pc \in {"move", "lmdb", "finished"}
        \/ pipe_count > 0
        \/ pipe_stores # <<>>)
       => /\ \A i \in 1..Len(pipe_tasks) : pipe_tasks[i] = "done"
          /\ \A w \in PoolWorkers : pipe_running[w] = 0
    /\ pipe_stores # <<>>
       => /\ pipe_count = Len(pipe_files)
          /\ \A k \in Kinds : pipe_dirs[<<"full", k>>] = {}
          /\ \A d \in {"train", "test", "val"} :
                pipe_labels[d] # <<"not written">>

C20_Witness ==
    /\ pipe_pc = "finished"
    /\ Len(pipe_tasks) = 6
    /\ Len(pipe_files) = 3
    /\ pipe_count = 3
    /\ Len(pipe_stores) = 12

\* C24: after the parallel convert stage has finished, whatever the
\* interleaving of the worker tasks was, the four full/ subdirectories
\* (original_images, processed_gt, recall_weights, precision_weights) hold
\* exactly the same set of filenames, one per accepted original, so every
\* move the splitter performs finds its source file.
C24_FullDirsAgree ==
    /\ pipe_pc = "split" =>
          /\ \A k \in Kinds : pipe_dirs[<<"full", k>>] = pipe_accepted
          /\ \A name \in pipe_accepted :
                \E i \in 1..Len(pipe_listing) :
                   /\ pipe_listing[i].name = name
                   /\ ~pipe_listing[i].isgt
    /\ pipe_pc = "move" =>
          /\ Len(pipe_files) = Cardinality(pipe_accepted)
          /\ \A c \in (pipe_count + 1)..Len(pipe_sequence) :
                \A k \in Kinds :
                   pipe_files[pipe_sequence[c] + 1]
                      \in pipe_dirs[<<"full", k>>]

C24_Witness ==
    /\ pipe_pc = "move"
    /\ Len(pipe_listing) = 6
    /\ Cardinality(pipe_accepted) = 2
    /\ pipe_count = 1
    /\ \A k \in Kinds : Cardinality(pipe_dirs[<<"full", k>>]) = 1

----------------------------------------------------------------------------
(* Claims about one create call, checked under SpecCreate                  *)

\* how many of the first i decisions drew from the generator that decision
\* i drew from
DrawsBefore(i) ==
    Cardinality({j \in 1..i : Source(create_decisions[j].what)
                                 = Source(create_decisions[i].what)})

\* C21 as stated: a Document constructed with seed s makes in create the
\* same sequence of random decisions (background, fade decision, glyphs,
\* ink-colour steps, descriptor parameters) every time, also when other
\* Documents are constructed in the process between its construction and
\* its create: each decision is the draw that generators seeded with s give
\* at that place of the sequence.
C21_DecisionsFollowSeed ==
    \A i \in 1..Len(create_decisions) :
       create_decisions[i].value
          = Draws(Seeded(create_seed[This]), DrawsBefore(i))

\* the place of a stage in the order of create
StageRank(name) ==
    CASE name = "pass 1" -> 1
      [] name = "fade" -> 2
      [] name = "text" -> 3
      [] name = "pass 2" -> 4

\* the stages of that name which create has begun
StagesNamed(name) ==
    {i \in 1..Len(create_stages) : create_stages[i].name = name}

\* the stages of that name which did their work
StagesDone(name) ==
    {i \in StagesNamed(name) : create_stages[i].ok}

\* C23 as stated: a non-bypass create runs its stages in the order first
\* degradation pass, optional faded layer, real text layer, second
\* degradation pass, each at most once, and sets result only after the
\* second pass has succeeded; a bypass create never invokes the tool and
\* sets result only after the real text layer was composited; the faded
\* layer precedes the real text layer and neither writes nor changes the
\* ground truth.
C23_StagesInOrder ==
    /\ [](/\ \A i, j \in 1..Len(create_stages) :
                i < j => StageRank(create_stages[i].name)
                            < StageRank(create_stages[j].name)
          /\ ~create_bypass =>
                /\ StagesNamed("fade") \cup StagesNamed("text") # {}
                      => StagesDone("pass 1") # {}
                /\ StagesNamed("pass 2") # {} => StagesNamed("text") # {}
                /\ create_result # NonePath => StagesDone("pass 2") # {}
          /\ create_bypass =>
                /\ StagesNamed("pass 1") \cup StagesNamed("pass 2") = {}
                /\ create_result # NonePath => StagesDone("text") # {})
    /\ [][create_pc = "_add_text_fade"
             => UNCHANGED <<create_result_ground_truth, create_fs>>]_vars

====
